---- MODULE Spec2Model ----
(***************************************************************************)
(* State-machine model of the trading simulator of hsi-strategy-app:       *)
(* app/trading/simulator.py, class TradingSimulator.                       *)
(*                                                                         *)
(* One instance is modelled.  buy, sell and reset are one step each;       *)
(* simulate() is a sequence of steps (reset, column checks, one step per   *)
(* row, return) during which no other call runs on the instance.           *)
(*                                                                         *)
(* Money and quantities are Python floats in the source.  The model draws  *)
(* them from the integers, where float arithmetic is exact (the amounts    *)
(* used by the repository's tests are of this kind); binary rounding of    *)
(* fractional amounts is outside the model.                                *)
(***************************************************************************)
EXTENDS Integers, Sequences, FiniteSets, TLC

(***************************************************************************)
(* Bounds of the model.                                                    *)
(***************************************************************************)
MaxPrice == 1
MaxQty == 2
MaxInitialCash == 2
MaxRows == 2
MaxLog == 2
MaxCash == 4

Symbols == {"HSI", "TCH"}
\* simulate() is called with its default symbol, as its callers do
SimSymbols == {"HSI"}
Prices == 0..MaxPrice
Quantities == 1..MaxQty

\* Values of the signal column: simulate() compares against "BUY" and "SELL"
\* and ignores everything else.
Signals == {"BUY", "SELL", "HOLD"}

\* timestamp=None, the default of buy() and sell()
None == -1
\* the value of datetime.datetime.now(): opaque, truthy, not a row date
Now == -2

(***************************************************************************)
(* The program's state.                                                    *)
(***************************************************************************)
VARIABLES
    initial_cash,   \* self.initial_cash
    cash,           \* self.cash
    positions,      \* self.positions : symbol -> quantity, a partial map
    trade_log,      \* self.trade_log : list of trade dicts
    pc,             \* "idle"; inside simulate(): "check" (columns), "loop" (rows)
    sim,            \* the frame of simulate(), kept until the next call
    ret,            \* the last call made on the instance and how it ended
    result          \* <<r>> : the value the last simulate() returned, or <<>>

\* The strategy side: app/strategies (strategy objects, their tables and the
\* performance analyzer).
VARIABLES
    strategy,       \* the strategy object the caller holds, or NoStrategy
    data,           \* the caller's price series: the 'close' column, oldest first
    signals,        \* self.signals : the 'signal' column of the last backtest
    table,          \* self.positions, or the table handed to evaluate_strategy
    performance,    \* self.performance, or what evaluate_strategy returned: <<r>> or <<>>
    sret,           \* the last call made on the strategy side and how it ended
    gp              \* the frame of generate_position()

simVars == <<initial_cash, cash, positions, trade_log, pc, sim, ret, result>>
strategyVars == <<strategy, data, signals, table, performance, sret, gp>>
vars == <<simVars, strategyVars>>

\* The ledger, as one value.
Ledger == [cash |-> cash, positions |-> positions, trade_log |-> trade_log]

EmptyPositions == [s \in {} |-> 0]

\* dict assignment positions[symbol] = q
SetItem(pos, symbol, q) ==
    [s \in (DOMAIN pos) \cup {symbol} |-> IF s = symbol THEN q ELSE pos[s]]

\* del positions[symbol]
DelItem(pos, symbol) ==
    [s \in (DOMAIN pos) \ {symbol} |-> pos[s]]

\* `timestamp or datetime.datetime.now()`: None and 0 are falsy
TimestampOrNow(timestamp) ==
    IF timestamp = None \/ timestamp = 0 THEN Now ELSE timestamp

(***************************************************************************)
(* Faulty variants of buy, each one plausible slip away from the source.   *)
(***************************************************************************)
BuyTrade(symbol, price, quantity, timestamp, cost, remaining) ==
    [timestamp |-> TimestampOrNow(timestamp), symbol |-> symbol, type |-> "buy",
     price |-> price, quantity |-> quantity, cost |-> cost,
     remaining_cash |-> remaining]

\* no funds check at all
buy_unchecked(L, symbol, price, quantity, timestamp) ==
    LET cost == price * quantity IN
    [status |-> "ok",
     ledger |-> [cash |-> L.cash - cost,
                 positions |-> SetItem(L.positions, symbol,
                                       (IF symbol \in DOMAIN L.positions
                                        THEN L.positions[symbol] ELSE 0) + quantity),
                 trade_log |-> Append(L.trade_log,
                     BuyTrade(symbol, price, quantity, timestamp, cost, L.cash - cost))]]

\* the funds check rejects a cost equal to cash
buy_strict(L, symbol, price, quantity, timestamp) ==
    LET cost == price * quantity IN
    IF cost >= L.cash
    THEN [status |-> "ValueError", ledger |-> L]
    ELSE buy_unchecked(L, symbol, price, quantity, timestamp)

\* a buy that accepts only a positive quantity at a price that is not negative
buy_validated(L, symbol, price, quantity, timestamp) ==
    IF quantity <= 0 \/ price < 0 \/ price * quantity > L.cash
    THEN [status |-> "ValueError", ledger |-> L]
    ELSE buy_unchecked(L, symbol, price, quantity, timestamp)

\* the record keeps the cash from before the debit
buy_stale_cash(L, symbol, price, quantity, timestamp) ==
    LET cost == price * quantity IN
    IF cost > L.cash
    THEN [status |-> "ValueError", ledger |-> L]
    ELSE [status |-> "ok",
          ledger |-> [cash |-> L.cash - cost,
                      positions |-> SetItem(L.positions, symbol,
                                       (IF symbol \in DOMAIN L.positions
                                        THEN L.positions[symbol] ELSE 0) + quantity),
                      trade_log |-> Append(L.trade_log,
                          BuyTrade(symbol, price, quantity, timestamp, cost, L.cash))]]

\* the holding is overwritten instead of increased
buy_overwrite(L, symbol, price, quantity, timestamp) ==
    LET cost == price * quantity IN
    IF cost > L.cash
    THEN [status |-> "ValueError", ledger |-> L]
    ELSE [status |-> "ok",
          ledger |-> [cash |-> L.cash - cost,
                      positions |-> SetItem(L.positions, symbol, quantity),
                      trade_log |-> Append(L.trade_log,
                          BuyTrade(symbol, price, quantity, timestamp, cost, L.cash - cost))]]

(***************************************************************************)
(* TradingSimulator.buy: the outcome and the ledger it leaves.             *)
(***************************************************************************)
buy(L, symbol, price, quantity, timestamp) ==
    LET cost == price * quantity IN
    IF cost > L.cash
    THEN [status |-> "ValueError", ledger |-> L]
    ELSE LET newCash == L.cash - cost
             newPos  == IF symbol \in DOMAIN L.positions
                        THEN SetItem(L.positions, symbol, L.positions[symbol] + quantity)
                        ELSE SetItem(L.positions, symbol, quantity)
             trade   == [timestamp |-> TimestampOrNow(timestamp),
                         symbol |-> symbol,
                         type |-> "buy",
                         price |-> price,
                         quantity |-> quantity,
                         cost |-> cost,
                         remaining_cash |-> newCash]
         IN [status |-> "ok",
             ledger |-> [cash |-> newCash,
                         positions |-> newPos,
                         trade_log |-> Append(L.trade_log, trade)]]

(***************************************************************************)
(* Faulty variants of sell.                                                *)
(***************************************************************************)
SellTrade(symbol, price, quantity, timestamp, proceeds, remaining) ==
    [timestamp |-> TimestampOrNow(timestamp), symbol |-> symbol, type |-> "sell",
     price |-> price, quantity |-> quantity, proceeds |-> proceeds,
     remaining_cash |-> remaining]

SellWith(L, symbol, price, quantity, timestamp, enough, proceeds, drop) ==
    IF symbol \notin DOMAIN L.positions
    THEN [status |-> "KeyError", ledger |-> L]
    ELSE IF ~enough
    THEN [status |-> "ValueError", ledger |-> L]
    ELSE LET left == L.positions[symbol] - quantity IN
         [status |-> "ok",
          ledger |-> [cash |-> L.cash + proceeds,
                      positions |-> IF left = 0 /\ drop
                                    THEN DelItem(L.positions, symbol)
                                    ELSE SetItem(L.positions, symbol, left),
                      trade_log |-> Append(L.trade_log,
                          SellTrade(symbol, price, quantity, timestamp, proceeds,
                                    L.cash + proceeds))]]

\* selling the whole holding is rejected
sell_strict(L, symbol, price, quantity, timestamp) ==
    SellWith(L, symbol, price, quantity, timestamp,
             symbol \in DOMAIN L.positions /\ L.positions[symbol] > quantity,
             price * quantity, TRUE)

\* the proceeds forget the quantity
sell_unit_proceeds(L, symbol, price, quantity, timestamp) ==
    SellWith(L, symbol, price, quantity, timestamp,
             symbol \in DOMAIN L.positions /\ L.positions[symbol] >= quantity,
             price, TRUE)

\* an emptied holding stays in the dict with quantity 0
sell_keep_zero(L, symbol, price, quantity, timestamp) ==
    SellWith(L, symbol, price, quantity, timestamp,
             symbol \in DOMAIN L.positions /\ L.positions[symbol] >= quantity,
             price * quantity, FALSE)

(***************************************************************************)
(* TradingSimulator.sell                                                   *)
(***************************************************************************)
sell(L, symbol, price, quantity, timestamp) ==
    IF symbol \notin DOMAIN L.positions
    THEN [status |-> "KeyError", ledger |-> L]
    ELSE IF L.positions[symbol] < quantity
    THEN [status |-> "ValueError", ledger |-> L]
    ELSE LET proceeds == price * quantity
             newCash  == L.cash + proceeds
             left     == L.positions[symbol] - quantity
             newPos   == IF left = 0
                         THEN DelItem(L.positions, symbol)
                         ELSE SetItem(L.positions, symbol, left)
             trade    == [timestamp |-> TimestampOrNow(timestamp),
                          symbol |-> symbol,
                          type |-> "sell",
                          price |-> price,
                          quantity |-> quantity,
                          proceeds |-> proceeds,
                          remaining_cash |-> newCash]
         IN [status |-> "ok",
             ledger |-> [cash |-> newCash,
                         positions |-> newPos,
                         trade_log |-> Append(L.trade_log, trade)]]

\* a reset that forgets to empty the holdings
reset_keep_positions(L, init) ==
    [cash |-> init, positions |-> L.positions, trade_log |-> <<>>]

(***************************************************************************)
(* TradingSimulator.reset                                                  *)
(***************************************************************************)
reset(L, init) ==
    [cash |-> init, positions |-> EmptyPositions, trade_log |-> <<>>]

(***************************************************************************)
(* TradingSimulator.get_portfolio_value.  current_prices is a partial map  *)
(* symbol -> price; a held symbol without a price is marked "unknown".     *)
(***************************************************************************)
RECURSIVE SumValues(_, _, _)
SumValues(pos, current_prices, syms) ==
    IF syms = {} THEN 0
    ELSE LET s == CHOOSE x \in syms : TRUE
         IN (IF s \in DOMAIN current_prices THEN pos[s] * current_prices[s] ELSE 0)
            + SumValues(pos, current_prices, syms \ {s})

\* a held symbol without a current price is left out of the breakdown
get_portfolio_value_skip_missing(L, current_prices) ==
    LET positions_value == SumValues(L.positions, current_prices, DOMAIN L.positions)
    IN [cash |-> L.cash,
        positions_value |-> positions_value,
        total_value |-> L.cash + positions_value,
        positions_detail |->
            [s \in DOMAIN L.positions \cap DOMAIN current_prices |->
                [quantity |-> L.positions[s],
                 current_price |-> current_prices[s],
                 value |-> L.positions[s] * current_prices[s]]]]

get_portfolio_value(L, current_prices) ==
    LET positions_value == SumValues(L.positions, current_prices, DOMAIN L.positions)
        positions_detail ==
            [s \in DOMAIN L.positions |->
                IF s \in DOMAIN current_prices
                THEN [quantity |-> L.positions[s],
                      current_price |-> current_prices[s],
                      value |-> L.positions[s] * current_prices[s]]
                ELSE [quantity |-> L.positions[s],
                      current_price |-> "unknown",
                      value |-> "unknown"]]
    IN [cash |-> L.cash,
        positions_value |-> positions_value,
        total_value |-> L.cash + positions_value,
        positions_detail |-> positions_detail]

(***************************************************************************)
(* TradingSimulator.get_performance_summary.  cash_change_percent is the   *)
(* quotient (cash_change / initial_cash) * 100, kept as <<num, den>>.      *)
(***************************************************************************)
CountType(log, type) == Cardinality({k \in 1..Len(log) : log[k].type = type})

get_performance_summary(L, init) ==
    LET cash_change == L.cash - init IN
    [total_trades |-> Len(L.trade_log),
     buy_trades |-> CountType(L.trade_log, "buy"),
     sell_trades |-> CountType(L.trade_log, "sell"),
     cash_change |-> cash_change,
     cash_change_percent |-> IF init # 0 THEN <<cash_change * 100, init>> ELSE <<0, 1>>]

(***************************************************************************)
(* The table handed to simulate().                                         *)
(*   signal_col : the column named by signal_column exists                 *)
(*   price_cols : which of "close" and "price" exist                       *)
(*   index      : "datetime" - the index holds dates;                      *)
(*                "datecol"  - integer index 0,1,.. and a 'date' column;   *)
(*                "range"    - integer index 0,1,.. and no 'date' column   *)
(*   rows       : the rows in table order; row k carries date k            *)
(***************************************************************************)
IndexKinds == {"datetime", "datecol", "range"}

\* The table layouts the model feeds to simulate().
TableShapes ==
    { [signal_col |-> TRUE,  price_cols |-> {"close"},          index |-> "datetime"],
      [signal_col |-> TRUE,  price_cols |-> {"price"},          index |-> "range"],
      [signal_col |-> TRUE,  price_cols |-> {"close", "price"}, index |-> "datecol"],
      [signal_col |-> FALSE, price_cols |-> {"close"},          index |-> "datetime"],
      [signal_col |-> TRUE,  price_cols |-> {},                 index |-> "datetime"],
      [signal_col |-> FALSE, price_cols |-> {},                 index |-> "range"] }

\* In a table with both price columns the two columns differ on every row.
OtherPrice(p) == (p + 1) % (MaxPrice + 1)

\* The rows of a table of a given layout; a column that is absent reads as
\* the fixed filler 0 / "HOLD" and is never looked at.
RowsOf(shape) ==
    { r \in [close : Prices, price : Prices, signal : Signals] :
        /\ (~shape.signal_col => r.signal = "HOLD")
        /\ ("close" \notin shape.price_cols => r.close = 0)
        /\ ("price" \notin shape.price_cols => r.price = 0)
        /\ (shape.price_cols = {"close", "price"} => r.price = OtherPrice(r.close)) }

TablesOf(shape) ==
    { [signal_col |-> shape.signal_col, price_cols |-> shape.price_cols,
       index |-> shape.index, rows |-> rs] :
        rs \in UNION { [1..n -> RowsOf(shape)] : n \in 0..MaxRows } }

DataFrames == UNION { TablesOf(shape) : shape \in TableShapes }

NoFrame ==
    [df |-> [signal_col |-> TRUE, price_cols |-> {"close"}, index |-> "datetime", rows |-> <<>>],
     symbol |-> "HSI", quantity |-> 1, price_column |-> "close", i |-> 0]

\* line 320: price_column = "close" if "close" in df.columns else "price"
PriceColumn(df) == IF "close" \in df.price_cols THEN "close" ELSE "price"

\* row[price_column]
RowPrice(row, price_column) == IF price_column = "close" THEN row.close ELSE row.price

\* line 329: index if it is a date, else row.get("date", index)
RowTimestamp(df, k) ==
    IF df.index = "datetime" THEN k
    ELSE IF df.index = "datecol" THEN k
    ELSE k - 1

\* a loop body that buys only while the symbol is not held
SimulateRowStep_no_pyramiding(L, df, price_column, symbol, quantity, k) ==
    LET row   == df.rows[k]
        price == RowPrice(row, price_column)
        ts    == RowTimestamp(df, k)
    IN IF row.signal = "BUY" /\ symbol \notin DOMAIN L.positions
       THEN buy(L, symbol, price, quantity, ts).ledger
       ELSE IF row.signal = "SELL" /\ symbol \in DOMAIN L.positions
       THEN sell(L, symbol, price,
                 IF quantity <= L.positions[symbol] THEN quantity ELSE L.positions[symbol],
                 ts).ledger
       ELSE L

\* a loop body that takes every signal other than BUY for a SELL
SimulateRowStep_else_sell(L, df, price_column, symbol, quantity, k) ==
    LET row   == df.rows[k]
        price == RowPrice(row, price_column)
        ts    == RowTimestamp(df, k)
    IN IF row.signal = "BUY"
       THEN buy(L, symbol, price, quantity, ts).ledger
       ELSE IF symbol \in DOMAIN L.positions
       THEN sell(L, symbol, price,
                 IF quantity <= L.positions[symbol] THEN quantity ELSE L.positions[symbol],
                 ts).ledger
       ELSE L

(***************************************************************************)
(* One iteration of the loop of simulate() (lines 323-345): the ledger     *)
(* after row k.  The ValueError / KeyError of buy and sell is swallowed.   *)
(***************************************************************************)
SimulateRowStep(L, df, price_column, symbol, quantity, k) ==
    LET row       == df.rows[k]
        price     == RowPrice(row, price_column)
        signal    == row.signal
        timestamp == RowTimestamp(df, k)
    IN IF signal = "BUY"
       THEN buy(L, symbol, price, quantity, timestamp).ledger
       ELSE IF signal = "SELL" /\ symbol \in DOMAIN L.positions
       THEN LET sell_quantity == IF quantity <= L.positions[symbol]
                                 THEN quantity ELSE L.positions[symbol]
            IN IF sell_quantity > 0
               THEN sell(L, symbol, price, sell_quantity, timestamp).ledger
               ELSE L
       ELSE L

(***************************************************************************)
(* The tail of simulate() (lines 347-364): the returned dict.              *)
(***************************************************************************)
SimulateResult(L, init, df, price_column, symbol) ==
    LET final_positions == L.positions
        last_price      == RowPrice(df.rows[Len(df.rows)], price_column)
        last_prices     == [s \in {symbol} |-> last_price]
    IN [final_cash |-> L.cash,
        final_positions |-> final_positions,
        portfolio_value |-> get_portfolio_value(L, last_prices),
        total_trades |-> Len(L.trade_log),
        performance |-> get_performance_summary(L, init)]

(***************************************************************************)
(* The strategy side before any strategy is constructed.  The simulator    *)
(* and the strategies share no state: MACrossStrategy.backtest builds a    *)
(* TradingSimulator of its own.                                            *)
(***************************************************************************)
NoStrategy == [cls |-> "none"]
NoCall == [op |-> "none", status |-> "ok"]
NoGP == [signal |-> <<>>, i |-> 1, position |-> 0, out |-> <<>>]
\* pd.DataFrame(): no rows; datetime: the index is a DatetimeIndex, and then
\* days = (index[-1] - index[0]).days
NoTable == [rows |-> <<>>, datetime |-> FALSE, days |-> 0]

StrategyAbsent ==
    /\ strategy = NoStrategy
    /\ data = <<>>
    /\ signals = <<>>
    /\ table = NoTable
    /\ performance = <<>>
    /\ sret = NoCall
    /\ gp = NoGP

(***************************************************************************)
(* Construction: TradingSimulator(initial_cash).                           *)
(***************************************************************************)
Init ==
    /\ initial_cash \in 0..MaxInitialCash
    /\ cash = initial_cash
    /\ positions = EmptyPositions
    /\ trade_log = <<>>
    /\ pc = "idle"
    /\ sim = NoFrame
    /\ ret = [op |-> "init", status |-> "ok"]
    /\ result = <<>>
    /\ StrategyAbsent

SetLedger(L) ==
    /\ cash' = L.cash
    /\ positions' = L.positions
    /\ trade_log' = L.trade_log

(***************************************************************************)
(* A direct call of buy(symbol, price, quantity).                          *)
(***************************************************************************)
Buy(symbol, price, quantity) ==
    /\ pc = "idle"
    /\ LET r == buy(Ledger, symbol, price, quantity, None) IN
        /\ (r.status = "ok" => Len(r.ledger.trade_log) <= MaxLog)
        /\ SetLedger(r.ledger)
        /\ ret' = [op |-> "buy", status |-> r.status]
    /\ result' = <<>>
    /\ sim' = NoFrame
    /\ UNCHANGED <<initial_cash, pc>>
    /\ UNCHANGED strategyVars

(***************************************************************************)
(* A direct call of sell(symbol, price, quantity).                         *)
(***************************************************************************)
Sell(symbol, price, quantity) ==
    /\ pc = "idle"
    /\ LET r == sell(Ledger, symbol, price, quantity, None) IN
        /\ (r.status = "ok" => Len(r.ledger.trade_log) <= MaxLog)
        /\ r.ledger.cash <= MaxCash
        /\ SetLedger(r.ledger)
        /\ ret' = [op |-> "sell", status |-> r.status]
    /\ result' = <<>>
    /\ sim' = NoFrame
    /\ UNCHANGED <<initial_cash, pc>>
    /\ UNCHANGED strategyVars

(***************************************************************************)
(* A direct call of reset().                                               *)
(***************************************************************************)
Reset ==
    /\ pc = "idle"
    /\ SetLedger(reset(Ledger, initial_cash))
    /\ ret' = [op |-> "reset", status |-> "ok"]
    /\ result' = <<>>
    /\ sim' = NoFrame
    /\ UNCHANGED <<initial_cash, pc>>
    /\ UNCHANGED strategyVars

(***************************************************************************)
(* simulate(df, signal_column, symbol, quantity), lines 308-309: the call  *)
(* begins by resetting the ledger, whatever its arguments are.             *)
(***************************************************************************)
SimulateStart ==
    /\ pc = "idle"
    /\ SetLedger(reset(Ledger, initial_cash))
    /\ pc' = "check"
    /\ ret' = [op |-> "simulate", status |-> "running"]
    /\ result' = <<>>
    /\ sim' = NoFrame
    /\ UNCHANGED initial_cash
    /\ UNCHANGED strategyVars

(***************************************************************************)
(* simulate(), lines 311-320: the arguments are read for the first time:   *)
(* the two column checks, each raising ValueError, and the choice of the   *)
(* price column.  The arguments of the call are drawn here, where the      *)
(* code first looks at them.                                               *)
(***************************************************************************)
SimulateCheckWith(df, symbol, quantity) ==
    /\ IF ~df.signal_col
       THEN /\ pc' = "idle"
            /\ ret' = [ret EXCEPT !.status = "ValueError"]
       ELSE IF "close" \notin df.price_cols /\ "price" \notin df.price_cols
       THEN /\ pc' = "idle"
            /\ ret' = [ret EXCEPT !.status = "ValueError"]
       ELSE /\ pc' = "loop"
            /\ ret' = ret
    /\ sim' = [df |-> df, symbol |-> symbol, quantity |-> quantity,
               price_column |-> PriceColumn(df), i |-> 1]
    /\ UNCHANGED <<initial_cash, cash, positions, trade_log, result>>
    /\ UNCHANGED strategyVars

SimulateCheck ==
    /\ pc = "check"
    /\ \E df \in DataFrames, s \in SimSymbols, q \in Quantities :
          SimulateCheckWith(df, s, q)

(***************************************************************************)
(* simulate(), lines 323-345: the loop body for row sim.i.                 *)
(***************************************************************************)
SimulateRow ==
    /\ pc = "loop"
    /\ sim.i <= Len(sim.df.rows)
    /\ SetLedger(SimulateRowStep(Ledger, sim.df, sim.price_column, sim.symbol,
                                 sim.quantity, sim.i))
    /\ sim' = [sim EXCEPT !.i = @ + 1]
    /\ UNCHANGED <<initial_cash, pc, ret, result>>
    /\ UNCHANGED strategyVars

(***************************************************************************)
(* simulate(), lines 347-364: after the loop.  df[price_column].iloc[-1]   *)
(* raises IndexError on a table without rows.                              *)
(***************************************************************************)
SimulateReturn ==
    /\ pc = "loop"
    /\ sim.i > Len(sim.df.rows)
    /\ pc' = "idle"
    /\ IF Len(sim.df.rows) = 0
       THEN /\ ret' = [ret EXCEPT !.status = "IndexError"]
            /\ result' = <<>>
       ELSE /\ ret' = [ret EXCEPT !.status = "ok"]
            /\ result' = <<SimulateResult(Ledger, initial_cash, sim.df,
                                          sim.price_column, sim.symbol)>>
    /\ UNCHANGED <<initial_cash, cash, positions, trade_log, sim>>
    /\ UNCHANGED strategyVars

Next ==
    \/ \E s \in Symbols, p \in Prices, q \in Quantities : Buy(s, p, q)
    \/ \E s \in Symbols, p \in Prices, q \in Quantities : Sell(s, p, q)
    \/ Reset
    \/ SimulateStart
    \/ SimulateCheck
    \/ SimulateRow
    \/ SimulateReturn

Spec == Init /\ [][Next]_vars

(***************************************************************************)
(* Properties of the ledger.                                               *)
(***************************************************************************)
Held(pos, s) == IF s \in DOMAIN pos THEN pos[s] ELSE 0

Last(log) == log[Len(log)]

AppendsOne(log, log2) ==
    /\ Len(log2) = Len(log) + 1
    /\ SubSeq(log2, 1, Len(log)) = log

\* Every symbol other than s is held in pos2 exactly as in pos.
OthersUnchanged(pos, pos2, s) ==
    \A t \in Symbols \ {s} :
        /\ (t \in DOMAIN pos2) = (t \in DOMAIN pos)
        /\ Held(pos2, t) = Held(pos, t)

\* C1: from initial_cash >= 0, after any sequence of buy, sell, reset and
\* simulate calls with prices >= 0 and quantities > 0, successful or not,
\* cash is never negative and every symbol present in holdings has a
\* strictly positive quantity.
C1_LedgerNonNegative ==
    /\ cash >= 0
    /\ \A s \in DOMAIN positions : positions[s] > 0

\* A sell has just emptied a holding and raised cash: the entry is gone.
C1_Witness ==
    /\ ret = [op |-> "sell", status |-> "ok"]
    /\ DOMAIN positions = {}
    /\ cash > initial_cash

\* C2: buy fails with the insufficient-funds error exactly when
\* price*quantity > cash (a cost equal to cash is accepted), and a rejected
\* buy leaves cash, holdings and the trade log as they were.
C2_BuyRejectedIffCostExceedsCash ==
    \A s \in Symbols, p \in Prices, q \in Quantities :
        LET r == buy(Ledger, s, p, q, None) IN
        /\ (r.status = "ValueError") = (p * q > cash)
        /\ (r.status # "ValueError") = (r.status = "ok")
        /\ (r.status = "ValueError" => r.ledger = Ledger)

\* A buy was rejected on a ledger that an earlier buy had left with some
\* cash, but not enough.
C2_Witness ==
    /\ ret = [op |-> "buy", status |-> "ValueError"]
    /\ Len(trade_log) = 1
    /\ trade_log[1].type = "buy"
    /\ cash > 0

\* C3: sell fails with the unknown-position error when the symbol is not in
\* holdings (checked first), with the insufficient-position error when the
\* quantity exceeds the held amount; either way the ledger is unchanged.
C3_SellRejections ==
    \A s \in Symbols, p \in Prices, q \in Quantities :
        LET r == sell(Ledger, s, p, q, None) IN
        /\ (r.status = "KeyError") = (s \notin DOMAIN positions)
        /\ (r.status = "ValueError") = (s \in DOMAIN positions /\ q > positions[s])
        /\ r.status \in {"KeyError", "ValueError", "ok"}
        /\ (r.status # "ok" => r.ledger = Ledger)

\* A sell of more than the held amount was rejected.
C3_Witness ==
    /\ ret = [op |-> "sell", status |-> "ValueError"]
    /\ DOMAIN positions # {}

\* C4: a buy with price*quantity <= cash decreases cash by exactly
\* price*quantity, increases holdings[symbol] by quantity (creating the
\* entry if absent), leaves every other holding unchanged and appends
\* exactly one buy record whose remaining_cash is the new cash.
C4_BuyEffect ==
    \A s \in Symbols, p \in Prices, q \in Quantities :
        (p * q <= cash) =>
            LET L2 == buy(Ledger, s, p, q, None).ledger IN
            /\ L2.cash = cash - p * q
            /\ s \in DOMAIN L2.positions
            /\ L2.positions[s] = Held(positions, s) + q
            /\ OthersUnchanged(positions, L2.positions, s)
            /\ AppendsOne(trade_log, L2.trade_log)
            /\ Last(L2.trade_log).type = "buy"
            /\ Last(L2.trade_log).symbol = s
            /\ Last(L2.trade_log).price = p
            /\ Last(L2.trade_log).quantity = q
            /\ Last(L2.trade_log).cost = p * q
            /\ Last(L2.trade_log).remaining_cash = L2.cash

\* A buy added to a holding that existed already, at a cost.
C4_Witness ==
    /\ ret = [op |-> "buy", status |-> "ok"]
    /\ Len(trade_log) = 2
    /\ trade_log[1].symbol = trade_log[2].symbol
    /\ trade_log[1].type = "buy"
    /\ trade_log[2].cost > 0
    /\ positions[trade_log[2].symbol] = trade_log[1].quantity + trade_log[2].quantity

\* C5: a sell with quantity <= held amount increases cash by exactly
\* price*quantity, decreases holdings[symbol] by quantity, removes the
\* symbol when nothing is left, leaves every other holding unchanged and
\* appends exactly one sell record whose remaining_cash is the new cash.
C5_SellEffect ==
    \A s \in Symbols, p \in Prices, q \in Quantities :
        (s \in DOMAIN positions /\ q <= positions[s]) =>
            LET L2 == sell(Ledger, s, p, q, None).ledger IN
            /\ L2.cash = cash + p * q
            /\ Held(L2.positions, s) = positions[s] - q
            /\ (s \in DOMAIN L2.positions) = (positions[s] - q # 0)
            /\ OthersUnchanged(positions, L2.positions, s)
            /\ AppendsOne(trade_log, L2.trade_log)
            /\ Last(L2.trade_log).type = "sell"
            /\ Last(L2.trade_log).symbol = s
            /\ Last(L2.trade_log).price = p
            /\ Last(L2.trade_log).quantity = q
            /\ Last(L2.trade_log).proceeds = p * q
            /\ Last(L2.trade_log).remaining_cash = L2.cash

\* A sell of part of a holding, at a price: the rest stays.
C5_Witness ==
    /\ ret = [op |-> "sell", status |-> "ok"]
    /\ Last(trade_log).proceeds > 0
    /\ Held(positions, Last(trade_log).symbol) > 0

(***************************************************************************)
(* Properties of simulate().                                               *)
(***************************************************************************)
LedgerUnchanged == UNCHANGED <<cash, positions, trade_log>>

\* The state __init__ builds from initial_cash (lines 39-42).
FreshLedger(init) == [cash |-> init, positions |-> EmptyPositions, trade_log |-> <<>>]

\* The loop of simulate() run over the first n rows, starting from L.
RECURSIVE RunRows(_, _, _, _, _, _)
RunRows(L, df, price_column, symbol, quantity, n) ==
    IF n = 0 THEN L
    ELSE SimulateRowStep(RunRows(L, df, price_column, symbol, quantity, n - 1),
                         df, price_column, symbol, quantity, n)

\* What simulate(df, signal_column, symbol, quantity) leaves and returns on
\* an instance constructed with init and never used before.
OnFreshInstance(init, df, symbol, quantity, n) ==
    RunRows(FreshLedger(init), df, PriceColumn(df), symbol, quantity, n)

HasColumns(df) == df.signal_col /\ df.price_cols # {}

\* C6: simulate() never raises: for every table that has the signal column
\* and a price column, and every signal sequence of any length, the call
\* completes and returns a result.
C6_SimulateNeverRaises ==
    (pc = "idle" /\ ret.op = "simulate" /\ HasColumns(sim.df)) =>
        (ret.status = "ok" /\ Len(result) = 1)

\* C7: every simulate() call first resets the ledger to cash =
\* initial_cash, empty holdings and empty log, so its result and final
\* ledger depend only on initial_cash and the call's arguments, never on
\* the calls made earlier on the same instance.
C7_SimulateIgnoresHistory ==
    /\ (pc = "check") => Ledger = FreshLedger(initial_cash)
    /\ (pc = "loop") =>
          Ledger = OnFreshInstance(initial_cash, sim.df, sim.symbol, sim.quantity,
                                   sim.i - 1)
    /\ (pc = "idle" /\ ret.op = "simulate" /\ ret.status = "ValueError") =>
          (Ledger = FreshLedger(initial_cash) /\ result = <<>>)
    /\ (pc = "idle" /\ ret.op = "simulate" /\ ret.status # "ValueError") =>
          LET final == OnFreshInstance(initial_cash, sim.df, sim.symbol,
                                       sim.quantity, Len(sim.df.rows))
          IN /\ Ledger = final
             /\ result = IF ret.status = "ok"
                         THEN <<SimulateResult(final, initial_cash, sim.df,
                                               PriceColumn(sim.df), sim.symbol)>>
                         ELSE <<>>

\* A simulation returned after two trades that changed cash.
C7_Witness ==
    /\ ret = [op |-> "simulate", status |-> "ok"]
    /\ Len(result) = 1
    /\ result[1].total_trades = 2
    /\ result[1].final_cash # initial_cash

\* The row the loop of simulate() is about to process.
AtRow == pc = "loop" /\ sim.i <= Len(sim.df.rows)
CurRow == sim.df.rows[sim.i]
CurPrice == RowPrice(CurRow, sim.price_column)

\* C8: in simulate(), on a date whose signal is Buy, a buy of unitQuantity
\* at that date's price is executed if and only if price*unitQuantity <=
\* current cash, whether or not the symbol is already held; with
\* insufficient funds the ledger is unchanged for that date, and the
\* following dates are still processed.
C8_SimulateBuyRow ==
    [][ /\ (AtRow /\ CurRow.signal = "BUY") =>
              /\ pc' = "loop"
              /\ sim'.i = sim.i + 1
              /\ IF CurPrice * sim.quantity <= cash
                 THEN /\ cash' = cash - CurPrice * sim.quantity
                      /\ Held(positions', sim.symbol)
                            = Held(positions, sim.symbol) + sim.quantity
                      /\ AppendsOne(trade_log, trade_log')
                      /\ Last(trade_log').type = "buy"
                      /\ Last(trade_log').symbol = sim.symbol
                      /\ Last(trade_log').price = CurPrice
                      /\ Last(trade_log').quantity = sim.quantity
                 ELSE LedgerUnchanged
        /\ (pc = "loop" /\ pc' = "idle") => sim.i = Len(sim.df.rows) + 1 ]_vars

\* A Buy was rejected for lack of funds and the Buy of the following
\* date, at a lower price, was executed.
C8_Witness ==
    /\ pc = "loop"
    /\ sim.i = 3
    /\ sim.df.rows[1].signal = "BUY"
    /\ sim.df.rows[2].signal = "BUY"
    /\ RowPrice(sim.df.rows[1], sim.price_column) * sim.quantity > initial_cash
    /\ Len(trade_log) = 1
    /\ trade_log[1].type = "buy"

Min(a, b) == IF a <= b THEN a ELSE b

\* C9: in simulate(), on a date whose signal is Sell while the symbol is
\* held, exactly min(unitQuantity, heldQuantity) units are sold at that
\* date's price; on a Hold date, or a Sell date with no holding, cash,
\* holdings and the trade log are unchanged.
C9_SimulateSellRow ==
    [][ /\ (AtRow /\ CurRow.signal = "SELL" /\ sim.symbol \in DOMAIN positions) =>
              LET sold == Min(sim.quantity, positions[sim.symbol]) IN
              /\ cash' = cash + CurPrice * sold
              /\ Held(positions', sim.symbol) = positions[sim.symbol] - sold
              /\ AppendsOne(trade_log, trade_log')
              /\ Last(trade_log').type = "sell"
              /\ Last(trade_log').symbol = sim.symbol
              /\ Last(trade_log').price = CurPrice
              /\ Last(trade_log').quantity = sold
        /\ (AtRow /\ CurRow.signal = "SELL" /\ sim.symbol \notin DOMAIN positions) =>
              LedgerUnchanged
        /\ (AtRow /\ CurRow.signal = "HOLD") => LedgerUnchanged ]_vars

\* A Buy, then a Sell that sold the unit quantity at that date's price.
C9_Witness ==
    /\ pc = "loop"
    /\ sim.i = 3
    /\ sim.df.rows[2].signal = "SELL"
    /\ Len(trade_log) = 2
    /\ trade_log[2].type = "sell"
    /\ trade_log[2].quantity = sim.quantity
    /\ trade_log[2].proceeds > 0
    /\ sim.symbol \notin DOMAIN positions

MaxSignals == 4

NoSimulator ==
    /\ initial_cash = 0
    /\ cash = 0
    /\ positions = EmptyPositions
    /\ trade_log = <<>>
    /\ pc = "idle"
    /\ sim = NoFrame
    /\ ret = [op |-> "init", status |-> "ok"]
    /\ result = <<>>

SeqsUpTo(S, n) == UNION { [1..k -> S] : k \in 0..n }

\* a column of a table: the sequence of its entries, first row first
Column(f) == f \o <<>>

\* Values of the 'signal' column: 1 buy, 0 none/hold, -1 sell
SignalValues == {-1, 0, 1}

(***************************************************************************)
(* MACrossStrategy.generate_position: the position tracker.                *)
(***************************************************************************)
\* faulty variant: a Sell while Long closes the position first (Long -> Flat)
PositionStep_via_flat(position, signal) ==
    IF signal = 1 /\ position <= 0 THEN 1
    ELSE IF signal = -1 /\ position > 0 THEN 0
    ELSE IF signal = -1 /\ position = 0 THEN -1
    ELSE position

\* lines 207-211: the new value of the local variable `position`
PositionStep(position, signal) ==
    IF signal = 1 /\ position <= 0 THEN 1
    ELSE IF signal = -1 /\ position >= 0 THEN -1
    ELSE position

\* the 'position' column generate_position returns for a signal column
RECURSIVE PositionColumn(_, _, _)
PositionColumn(signal, position, k) ==
    IF k > Len(signal) THEN <<>>
    ELSE LET p == PositionStep(position, signal[k])
         IN <<p>> \o PositionColumn(signal, p, k + 1)

generate_position(signal) == PositionColumn(signal, 0, 1)

PositionInit ==
    /\ NoSimulator
    /\ StrategyAbsent

\* lines 198-204: the call; the table is copied and `position` starts at 0
GeneratePositionCall ==
    /\ gp.i > Len(gp.signal)
    /\ \E signal \in SeqsUpTo(SignalValues, MaxSignals) :
          gp' = [signal |-> signal, i |-> 1, position |-> 0, out |-> <<>>]
    /\ UNCHANGED <<strategy, data, signals, table, performance, sret>>
    /\ UNCHANGED simVars

\* lines 205-213: the loop body for row gp.i
GeneratePositionRow ==
    /\ gp.i <= Len(gp.signal)
    /\ LET p == PositionStep(gp.position, gp.signal[gp.i]) IN
          gp' = [gp EXCEPT !.position = p, !.out = Append(@, p), !.i = @ + 1]
    /\ UNCHANGED <<strategy, data, signals, table, performance, sret>>
    /\ UNCHANGED simVars

PositionNext ==
    \/ GeneratePositionCall
    \/ GeneratePositionRow

PositionSpec == PositionInit /\ [][PositionNext]_vars

Abs(x) == IF x < 0 THEN -x ELSE x

RECURSIVE GCD(_, _)
GCD(a, b) == IF b = 0 THEN a ELSE GCD(b, a % b)

Sign(x) == IF x > 0 THEN 1 ELSE IF x < 0 THEN -1 ELSE 0

NaN == [k |-> "nan", n |-> 0, d |-> 1]
Inf(sign) == [k |-> "inf", n |-> sign, d |-> 1]
Real(sign) == [k |-> "real", n |-> sign, d |-> 1]

\* the double n/d, d # 0
Num(n, d) ==
    LET g == GCD(Abs(n), Abs(d))
        s == IF d < 0 THEN -1 ELSE 1
    IN [k |-> "num", n |-> (s * n) \div g, d |-> (s * d) \div g]

Int2F(i) == Num(i, 1)
Zero == Int2F(0)
One == Int2F(1)

IsNaN(x) == x.k = "nan"
IsNum(x) == x.k = "num"
\* a defined number: neither NaN nor an infinity
IsFinite(x) == x.k \in {"num", "real"}
IsZero(x) == x.k = "num" /\ x.n = 0

\* x > 0, x < 0 as the source's comparisons evaluate them: False on NaN
FPos(x) == x.k \in {"num", "inf", "real"} /\ x.n > 0
FNeg(x) == x.k \in {"num", "inf", "real"} /\ x.n < 0

FNeg1(x) == IF x.k = "nan" THEN NaN ELSE [x EXCEPT !.n = -x.n]

FAdd(x, y) ==
    IF IsNaN(x) \/ IsNaN(y) THEN NaN
    ELSE IF x.k = "inf" /\ y.k = "inf" THEN (IF x.n = y.n THEN x ELSE NaN)
    ELSE IF x.k = "inf" THEN x
    ELSE IF y.k = "inf" THEN y
    ELSE IF IsNum(x) /\ IsNum(y)
         THEN LET g == GCD(x.d, y.d)
              IN Num(x.n * (y.d \div g) + y.n * (x.d \div g), (x.d \div g) * y.d)
    ELSE IF IsZero(x) THEN y
    ELSE IF IsZero(y) THEN x
    ELSE Real(IF Sign(x.n) = Sign(y.n) THEN Sign(x.n) ELSE 0)

FSub(x, y) == FAdd(x, FNeg1(y))

FMul(x, y) ==
    IF IsNaN(x) \/ IsNaN(y) THEN NaN
    ELSE IF IsNum(x) /\ IsNum(y) THEN Num(x.n * y.n, x.d * y.d)
    ELSE IF x.k = "inf" \/ y.k = "inf"
         THEN (IF IsZero(x) \/ IsZero(y) THEN NaN
               ELSE IF x.n = 0 \/ y.n = 0 THEN NaN
               ELSE Inf(x.n * y.n))
    ELSE IF IsZero(x) \/ IsZero(y) THEN Zero
    ELSE Real(Sign(x.n) * Sign(y.n))

\* division of doubles: x/0 is an infinity, 0/0 is NaN, no exception
FDiv(x, y) ==
    IF IsNaN(x) \/ IsNaN(y) THEN NaN
    ELSE IF x.k = "inf" /\ y.k = "inf" THEN NaN
    ELSE IF x.k = "inf" THEN Inf(IF y.n < 0 THEN -x.n ELSE x.n)
    ELSE IF y.k = "inf" THEN Zero
    ELSE IF IsZero(y)
         THEN (IF IsZero(x) THEN NaN
               ELSE IF x.n = 0 THEN NaN
               ELSE Inf(Sign(x.n)))
    ELSE IF IsNum(x) /\ IsNum(y) THEN Num(x.n * y.d, x.d * y.n)
    ELSE IF IsZero(x) THEN Zero
    ELSE Real(Sign(x.n) * Sign(y.n))

\* x > y, x < y: False when either side is NaN
FGt(x, y) == FPos(FSub(x, y))
FLt(x, y) == FNeg(FSub(x, y))

RECURSIVE SumInts(_, _, _)
SumInts(x, a, b) == IF a > b THEN 0 ELSE x[a] + SumInts(x, a + 1, b)

(***************************************************************************)
(* moving_average.py: the simple moving average and detect_sma_cross.      *)
(***************************************************************************)
MaxBars == 4
MaxClose == 2
MaxPeriod == 2

Closes == 1..MaxClose
Periods == 1..MaxPeriod

\* faulty variant: shift(-1), the value of the row after
Shift1_ahead(col, t) == IF t = Len(col) THEN NaN ELSE col[t + 1]

\* Series.shift(1) at row t: the previous row's value, NaN on the first row
Shift1(col, t) == IF t = 1 THEN NaN ELSE col[t - 1]

\* close.rolling(window=period).mean() at row t: NaN until `period` rows exist
RollingMean(close, period, t) ==
    IF t < period THEN NaN
    ELSE Num(SumInts(close, t - period + 1, t), period)

\* lines 157-165: the column sma_diff
SmaDiff(close, short_period, long_period) ==
    Column([t \in 1..Len(close) |->
        FSub(RollingMean(close, short_period, t), RollingMean(close, long_period, t))])

\* the label of row t as a cross point reports it: the index value, or its
\* '%Y-%m-%d' text when the table came with a 'date' column (line 184)
CrossDate(t, has_date_column) == [row |-> t, text |-> has_date_column]

\* faulty variant: a diff of zero on the previous date counts as "below"
CrossType_touch(prev, cur) ==
    IF (FNeg(prev) \/ IsZero(prev)) /\ FPos(cur) THEN "golden_cross"
    ELSE IF FPos(prev) /\ FNeg(cur) THEN "death_cross"
    ELSE "none"

\* lines 171-180: whether a row is selected as a cross point, and its type
CrossType(prev, cur) ==
    LET golden_cross == FNeg(prev) /\ FPos(cur)
        death_cross  == FPos(prev) /\ FNeg(cur)
    IN IF golden_cross \/ death_cross
       THEN (IF FPos(cur) THEN "golden_cross" ELSE "death_cross")
       ELSE "none"

\* lines 167-191: the cross points of rows t..Len(close), in row order
RECURSIVE CrossPoints(_, _, _, _, _)
CrossPoints(close, short_period, long_period, has_date_column, t) ==
    IF t > Len(close) THEN <<>>
    ELSE LET diff == SmaDiff(close, short_period, long_period)
             type == CrossType(Shift1(diff, t), diff[t])
             rest == CrossPoints(close, short_period, long_period,
                                 has_date_column, t + 1)
         IN IF type # "none"
            THEN <<[date |-> CrossDate(t, has_date_column),
                    type |-> type,
                    short_ma |-> RollingMean(close, short_period, t),
                    long_ma |-> RollingMean(close, long_period, t),
                    price |-> close[t]]>> \o rest
            ELSE rest

detect_sma_cross(close, short_period, long_period, has_date_column) ==
    CrossPoints(close, short_period, long_period, has_date_column, 1)

(***************************************************************************)
(* A caller that keeps a price series, receives new bars and calls         *)
(* detect_sma_cross on it.  The function checks neither period.            *)
(***************************************************************************)
CrossInit ==
    /\ NoSimulator
    /\ StrategyAbsent

\* the price series gets the bar of the next date; what the last call returned
\* was about the series as it was, and is dropped
NewBar(close) ==
    /\ Len(data) < MaxBars
    /\ data' = Append(data, close)
    /\ sret' = NoCall
    /\ UNCHANGED <<strategy, signals, table, performance, gp>>
    /\ UNCHANGED simVars

DetectSmaCross(short_period, long_period, has_date_column) ==
    /\ sret' = [op |-> "detect_sma_cross", status |-> "ok",
                short_period |-> short_period, long_period |-> long_period,
                value |-> detect_sma_cross(data, short_period, long_period,
                                           has_date_column)]
    /\ UNCHANGED <<strategy, data, signals, table, performance, gp>>
    /\ UNCHANGED simVars

CrossNext ==
    \/ \E c \in Closes : NewBar(c)
    \/ \E sp \in Periods, lp \in Periods, h \in BOOLEAN : DetectSmaCross(sp, lp, h)

CrossSpec == CrossInit /\ [][CrossNext]_vars

(***************************************************************************)
(* Crossovers, stated on the integers: the sign of fast minus slow on row  *)
(* t is the sign of long*sum(short window) - short*sum(long window).       *)
(***************************************************************************)
DiffDefined(close, sp, lp, t) == t >= 1 /\ t >= sp /\ t >= lp

DiffSign(close, sp, lp, t) ==
    Sign(lp * SumInts(close, t - sp + 1, t) - sp * SumInts(close, t - lp + 1, t))

\* diff[t-1] and diff[t] are both defined, both non-zero and of opposite sign
OppositeAt(close, sp, lp, t) ==
    /\ DiffDefined(close, sp, lp, t - 1)
    /\ DiffSign(close, sp, lp, t - 1) # 0
    /\ DiffSign(close, sp, lp, t) = -DiffSign(close, sp, lp, t - 1)

\* the signs of the defined, non-zero entries of the diff series, in date order
RECURSIVE NonZeroSigns(_, _, _, _)
NonZeroSigns(close, sp, lp, t) ==
    IF t > Len(close) THEN <<>>
    ELSE IF DiffDefined(close, sp, lp, t) /\ DiffSign(close, sp, lp, t) # 0
         THEN <<DiffSign(close, sp, lp, t)>> \o NonZeroSigns(close, sp, lp, t + 1)
         ELSE NonZeroSigns(close, sp, lp, t + 1)

\* the number of sign changes of the diff series: how often it passes from
\* one side of zero to the other
SignChanges(close, sp, lp) ==
    LET sg == NonZeroSigns(close, sp, lp, 1)
    IN Cardinality({k \in 2..Len(sg) : sg[k] # sg[k - 1]})

DetectReturned == sret.op = "detect_sma_cross"

\* what the claim says of the events themselves, for the call that returned
EventsAsClaimed ==
    LET v  == sret.value
        sp == sret.short_period
        lp == sret.long_period
    IN /\ \A t \in 1..Len(data) :
             (\E k \in 1..Len(v) : v[k].date.row = t) <=> OppositeAt(data, sp, lp, t)
       /\ \A k \in 1..Len(v) :
             /\ v[k].type \in {"golden_cross", "death_cross"}
             /\ (v[k].type = "golden_cross") <=> (DiffSign(data, sp, lp, v[k].date.row) = 1)
             /\ (v[k].type = "death_cross") <=> (DiffSign(data, sp, lp, v[k].date.row) = -1)
       /\ \A j, k \in 1..Len(v) : j < k => v[j].date.row < v[k].date.row
       /\ (sp = lp) => v = <<>>

\* C12 as stated: an event on date t exactly when diff[t-1] and diff[t] are
\* both defined, non-zero and of opposite sign, golden for negative to
\* positive and death for positive to negative; identical series give no
\* event; and the number of events equals the number of sign changes in the
\* diff series, also when the diff is exactly zero on some dates.
C12_CrossoversCountSignChanges ==
    DetectReturned =>
        /\ EventsAsClaimed
        /\ Len(sret.value) = SignChanges(data, sret.short_period, sret.long_period)

\* C12 as amended: the same events; their number equals the number of dates
\* on which the diff is non-zero and of the opposite sign to a non-zero diff
\* of the date before.  A passage from one side to the other through a date
\* with zero diff is a sign change of the series and no event.
C12_CrossoversCountAdjacentChanges ==
    DetectReturned =>
        /\ EventsAsClaimed
        /\ Len(sret.value) =
              Cardinality({t \in 1..Len(data) :
                              OppositeAt(data, sret.short_period, sret.long_period, t)})
        /\ Len(sret.value) <= SignChanges(data, sret.short_period, sret.long_period)

\* a death cross and then a golden cross are reported
C12_Witness ==
    /\ DetectReturned
    /\ data = <<1, 2, 1, 2>>
    /\ sret.short_period = 1
    /\ sret.long_period = 2
    /\ Len(sret.value) = 2
    /\ sret.value[1].type = "death_cross"
    /\ sret.value[2].type = "golden_cross"

(***************************************************************************)
(* The three strategy classes: their constructors and generate_signals.    *)
(***************************************************************************)
IntColumn(close) == Column([t \in 1..Len(close) |-> Int2F(close[t])])

\* Series.ewm(span=span, adjust=False).mean() at row t: seeded with the first
\* value, then alpha*x[t] + (1-alpha)*ema[t-1], alpha = 2/(span+1)
RECURSIVE Ewm(_, _, _)
Ewm(col, span, t) ==
    IF t = 1 THEN col[1]
    ELSE FAdd(FMul(Num(2, span + 1), col[t]),
              FMul(Num(span - 1, span + 1), Ewm(col, span, t - 1)))

EwmColumn(col, span) == Column([t \in 1..Len(col) |-> Ewm(col, span, t)])

FSubColumn(a, b) == Column([t \in 1..Len(a) |-> FSub(a[t], b[t])])

\* faulty variant: a death cross is marked as a buy
SignalOfCross_swapped(prev, cur) ==
    IF FNeg(prev) /\ FPos(cur) THEN 1
    ELSE IF FPos(prev) /\ FNeg(cur) THEN 1
    ELSE 0

\* signal = 1 where (prev_diff < 0) & (curr_diff > 0), -1 where
\* (prev_diff > 0) & (curr_diff < 0), else the initial 0
\* (ma_cross_strategy.py:171-174, moving_average.py:383-431, macd.py:251-346)
SignalOfCross(prev, cur) ==
    IF FPos(prev) /\ FNeg(cur) THEN -1
    ELSE IF FNeg(prev) /\ FPos(cur) THEN 1
    ELSE 0

SignalColumn(diff) ==
    Column([t \in 1..Len(diff) |-> SignalOfCross(Shift1(diff, t), diff[t])])

\* ma_cross_strategy.py:141-160: the signal column from the cross points of
\* detect_sma_cross.  prepare_data has moved a 'date' column into the index,
\* so the cross points carry index values and each is found in the index.
MACrossSmaSignal(close, short_period, long_period) ==
    LET cross_points == detect_sma_cross(close, short_period, long_period, FALSE)
    IN Column([t \in 1..Len(close) |->
          IF \E k \in 1..Len(cross_points) :
                cross_points[k].date.row = t /\ cross_points[k].type = "golden_cross"
          THEN 1
          ELSE IF \E k \in 1..Len(cross_points) :
                cross_points[k].date.row = t /\ cross_points[k].type = "death_cross"
          THEN -1
          ELSE 0])

\* ma_cross_strategy.py:161-177: the EMA branch
MACrossEmaSignal(close, short_period, long_period) ==
    SignalColumn(FSubColumn(EwmColumn(IntColumn(close), short_period),
                            EwmColumn(IntColumn(close), long_period)))

\* moving_average.py:349-359: fast_ma - slow_ma
MovingAverageDiff(close, fast_window, slow_window, ma_type) ==
    IF ma_type = "sma"
    THEN SmaDiff(close, fast_window, slow_window)
    ELSE FSubColumn(EwmColumn(IntColumn(close), fast_window),
                    EwmColumn(IntColumn(close), slow_window))

\* macd.py:212-225: macd - macd_signal, the histogram
MacdDiff(close, fast_period, slow_period, signal_period) ==
    LET macd == FSubColumn(EwmColumn(IntColumn(close), fast_period),
                           EwmColumn(IntColumn(close), slow_period))
    IN FSubColumn(macd, EwmColumn(macd, signal_period))

\* the fast-minus-slow series a strategy object crosses
StrategyDiff(s, close) ==
    IF s.cls = "MACross"
    THEN MovingAverageDiff(close, s.short_period, s.long_period, s.ma_type)
    ELSE IF s.cls = "MovingAverage"
    THEN MovingAverageDiff(close, s.fast_window, s.slow_window, s.ma_type)
    ELSE MacdDiff(close, s.fast_period, s.slow_period, s.signal_period)

\* generate_signals of the three classes: the 'signal' column
generate_signals(s, close) ==
    IF s.cls = "MACross"
    THEN (IF s.ma_type = "sma"
          THEN MACrossSmaSignal(close, s.short_period, s.long_period)
          ELSE MACrossEmaSignal(close, s.short_period, s.long_period))
    ELSE SignalColumn(StrategyDiff(s, close))

\* signal.replace(to_replace=0, method='ffill').fillna(0): the 'position'
\* column MovingAverageStrategy and MACDStrategy add (moving_average.py:437-438)
RECURSIVE FfillPosition(_, _)
FfillPosition(signal, t) ==
    IF t = 0 THEN 0
    ELSE IF signal[t] # 0 THEN signal[t]
    ELSE FfillPosition(signal, t - 1)

\* the position column is the signal column itself: nothing is carried forward
FfillColumn_no_fill(signal) == signal

FfillColumn(signal) == Column([t \in 1..Len(signal) |-> FfillPosition(signal, t)])

(***************************************************************************)
(* statistics.py: evaluate_strategy.  A table is [rows, datetime, days];   *)
(* a row is [position, returns, strategy_returns, capital], each a number  *)
(* as above.  The report is a record of seven fields; trade_count is an    *)
(* integer.                                                                *)
(***************************************************************************)
Max(a, b) == IF a >= b THEN a ELSE b

\* the largest entry of col[1..t] that is not NaN; NaN when there is none
\* (Series.max() and the running value of cummax(), both skipping NaN)
RECURSIVE MaxSkipNaN(_, _)
MaxSkipNaN(col, t) ==
    IF t = 0 THEN NaN
    ELSE LET m == MaxSkipNaN(col, t - 1)
         IN IF IsNaN(col[t]) THEN m
            ELSE IF IsNaN(m) THEN col[t]
            ELSE IF FGt(col[t], m) THEN col[t] ELSE m

\* Series.cummax() at row t: NaN where the entry is NaN
CumMax(col, t) == IF IsNaN(col[t]) THEN NaN ELSE MaxSkipNaN(col, t)

CapitalOf(df) == Column([t \in 1..Len(df.rows) |-> df.rows[t].capital])
StrategyReturnsOf(df) ==
    Column([t \in 1..Len(df.rows) |-> df.rows[t].strategy_returns])

\* lines 38-44
TotalReturn(df) ==
    IF Len(df.rows) > 0
    THEN LET initial_capital == df.rows[1].capital
             final_capital == df.rows[Len(df.rows)].capital
         IN FSub(FDiv(final_capital, initial_capital), One)
    ELSE Zero

\* base ** (en/ed) for doubles, en/ed > 0.  A power of a positive base other
\* than 1 is not computed exactly; a negative base has a real power only
\* for a whole exponent, otherwise the result is NaN.
Pow(base, en, ed) ==
    IF IsNaN(base) THEN NaN
    ELSE IF base.k = "inf"
         THEN (IF base.n > 0 \/ en % ed # 0 \/ (en \div ed) % 2 = 0
               THEN Inf(1) ELSE Inf(-1))
    ELSE IF base = One THEN One
    ELSE IF IsZero(base) THEN Zero
    ELSE IF base.n > 0 THEN Real(1)
    ELSE IF base.k = "real" /\ base.n = 0 THEN Real(0)
    ELSE IF en % ed # 0 THEN NaN
    ELSE IF base = Int2F(-1) THEN (IF (en \div ed) % 2 = 0 THEN One ELSE Int2F(-1))
    ELSE IF (en \div ed) % 2 = 0 THEN Real(1) ELSE Real(-1)

\* lines 46-60
AnnualReturn(df) ==
    IF Len(df.rows) > 1
    THEN LET days == IF df.datetime THEN df.days ELSE Len(df.rows)
         IN FSub(Pow(FAdd(One, TotalReturn(df)), 252, Max(days, 1)), One)
    ELSE Zero

\* lines 62-74
MaxDrawdown(df) ==
    IF Len(df.rows) > 0
    THEN LET capital == CapitalOf(df)
             drawdown == Column([t \in 1..Len(capital) |->
                             LET running_max == CumMax(capital, t)
                             IN FDiv(FSub(running_max, capital[t]), running_max)])
         IN MaxSkipNaN(drawdown, Len(drawdown))
    ELSE Zero

\* df['position'].diff().fillna(0) at row t
PositionChange(df, t) ==
    LET d == IF t = 1 THEN NaN
             ELSE FSub(df.rows[t].position, df.rows[t - 1].position)
    IN IF IsNaN(d) THEN Zero ELSE d

\* faulty variant: without fillna(0) the undefined change of the first row
\* compares unequal to 0 and is counted
TradeCount_no_fillna(df) ==
    IF Len(df.rows) > 1
    THEN Cardinality({t \in 1..Len(df.rows) :
                         t = 1 \/ ~IsZero(PositionChange(df, t))})
    ELSE 0

\* lines 76-85
TradeCount(df) ==
    IF Len(df.rows) > 1
    THEN Cardinality({t \in 1..Len(df.rows) : ~IsZero(PositionChange(df, t))})
    ELSE 0

\* lines 87-102
WinRate(df) ==
    LET trade_count == TradeCount(df) IN
    IF trade_count > 0
    THEN LET winning_trades ==
                 Cardinality({t \in 1..Len(df.rows) :
                                 /\ ~IsZero(PositionChange(df, t))
                                 /\ FPos(df.rows[t].strategy_returns)})
         IN Num(winning_trades, trade_count)
    ELSE Zero

\* Series.std() * sqrt(252): the sample standard deviation of the entries
\* that are not NaN; NaN with fewer than two of them, 0 when they are all
\* equal, otherwise a positive real
StdAnnualised(col) ==
    LET defined == {t \in 1..Len(col) : ~IsNaN(col[t])}
    IN IF Cardinality(defined) < 2 THEN NaN
       ELSE IF \E t \in defined : ~IsFinite(col[t]) THEN NaN
       ELSE IF \A t, u \in defined : col[t] = col[u] THEN Zero
       ELSE Real(1)

\* faulty variant: the standard deviation is taken whatever the number of rows
Volatility_unguarded(df) == StdAnnualised(StrategyReturnsOf(df))

\* lines 118-122
Volatility(df) ==
    IF Len(df.rows) > 1 THEN StdAnnualised(StrategyReturnsOf(df)) ELSE Zero

\* lines 104-116: risk_free_rate = 0.02
SharpeRatio(df) ==
    IF Len(df.rows) > 1
    THEN LET volatility == StdAnnualised(StrategyReturnsOf(df))
         IN IF FPos(volatility)
            THEN FDiv(FSub(AnnualReturn(df), Num(2, 100)), volatility)
            ELSE Zero
    ELSE Zero

\* lines 124-135.  The check of the four required columns (lines 33-36) is
\* passed by every table of the model.
evaluate_strategy(df) ==
    [total_return |-> TotalReturn(df),
     annual_return |-> AnnualReturn(df),
     max_drawdown |-> MaxDrawdown(df),
     trade_count |-> TradeCount(df),
     win_rate |-> WinRate(df),
     sharpe_ratio |-> SharpeRatio(df),
     volatility |-> Volatility(df)]

\* the six float fields of a report
FloatFields(r) ==
    {r.total_return, r.annual_return, r.max_drawdown, r.win_rate,
     r.sharpe_ratio, r.volatility}

(***************************************************************************)
(* The constructors.  Each returns [status, value]: the new object, or     *)
(* NoStrategy when the constructor raised.                                 *)
(***************************************************************************)
MaTypes == {"sma", "ema", "SMA", "wma"}

\* str.lower()
Lower(ma_type) == IF ma_type = "SMA" THEN "sma" ELSE ma_type

Raised(exc) == [status |-> exc, value |-> NoStrategy]

\* faulty variant: equal periods are accepted
MACrossStrategy_allow_equal(short_period, long_period, ma_type) ==
    IF short_period > long_period THEN Raised("ValueError")
    ELSE IF Lower(ma_type) \notin {"sma", "ema"} THEN Raised("ValueError")
    ELSE [status |-> "ok",
          value |-> [cls |-> "MACross", short_period |-> short_period,
                     long_period |-> long_period, ma_type |-> Lower(ma_type)]]

\* ma_cross_strategy.py:56-72
MACrossStrategy(short_period, long_period, ma_type) ==
    IF short_period >= long_period THEN Raised("ValueError")
    ELSE IF Lower(ma_type) \notin {"sma", "ema"} THEN Raised("ValueError")
    ELSE [status |-> "ok",
          value |-> [cls |-> "MACross", short_period |-> short_period,
                     long_period |-> long_period, ma_type |-> Lower(ma_type)]]

\* moving_average.py:321-331
MovingAverageStrategy(fast_window, slow_window, ma_type) ==
    IF fast_window >= slow_window THEN Raised("ValueError")
    ELSE IF Lower(ma_type) \notin {"sma", "ema"} THEN Raised("ValueError")
    ELSE [status |-> "ok",
          value |-> [cls |-> "MovingAverage", fast_window |-> fast_window,
                     slow_window |-> slow_window, ma_type |-> Lower(ma_type)]]

\* macd.py:187-194
MACDStrategy(fast_period, slow_period, signal_period) ==
    IF fast_period >= slow_period THEN Raised("ValueError")
    ELSE [status |-> "ok",
          value |-> [cls |-> "MACD", fast_period |-> fast_period,
                     slow_period |-> slow_period, signal_period |-> signal_period]]

(***************************************************************************)
(* StrategyBase.backtest (strategy_base.py:123-157).  The caller's table   *)
(* carries its dates either as the index (has_date_column = FALSE) or in a *)
(* 'date' column beside the default integer index (TRUE).  A strategy's    *)
(* generate_signals moves a 'date' column into the index, so that the      *)
(* signal table is indexed by date in both cases; bars are daily.          *)
(***************************************************************************)
\* generate_signals as a call: MovingAverageStrategy and MACDStrategy require
\* a 'date' column (moving_average.py:408-411, macd.py:320-323)
GenerateSignalsCall(s, close, has_date_column) ==
    IF s.cls \in {"MovingAverage", "MACD"} /\ ~has_date_column
    THEN [status |-> "ValueError", value |-> <<>>]
    ELSE [status |-> "ok", value |-> generate_signals(s, close)]

\* Series.diff() at row t
Diff1(signal, t) == IF t = 1 THEN NaN ELSE Int2F(signal[t] - signal[t - 1])

\* data['close'].pct_change() at row t
PctChange(close, t) ==
    IF t = 1 THEN NaN ELSE FSub(FDiv(Int2F(close[t]), Int2F(close[t - 1])), One)

\* line 136: the assignment aligns data['close'].pct_change() with the signal
\* table on the index.  With the dates in a column the caller's table has the
\* integer index and the signal table the dates: no label matches.
ReturnsColumn(close, has_date_column) ==
    Column([t \in 1..Len(close) |->
               IF has_date_column THEN NaN ELSE PctChange(close, t)])

\* line 139
StrategyReturnsColumn(signal, returns) ==
    Column([t \in 1..Len(signal) |->
               FMul(IF t = 1 THEN NaN ELSE Int2F(signal[t - 1]), returns[t])])

\* (1 + strategy_returns).cumprod() at row t: NaN where the entry is NaN,
\* else the product of the entries up to t that are not NaN
RECURSIVE ProdSkipNaN(_, _)
ProdSkipNaN(col, t) ==
    IF t = 0 THEN One
    ELSE IF IsNaN(col[t]) THEN ProdSkipNaN(col, t - 1)
    ELSE FMul(ProdSkipNaN(col, t - 1), col[t])

CumProd(col, t) == IF IsNaN(col[t]) THEN NaN ELSE ProdSkipNaN(col, t)

\* line 142
CapitalColumn(strategy_returns, initial_capital) ==
    LET growth == Column([t \in 1..Len(strategy_returns) |->
                             FAdd(One, strategy_returns[t])])
    IN Column([t \in 1..Len(growth) |->
                  FMul(Int2F(initial_capital), CumProd(growth, t))])

\* lines 145-152: position != 0 holds of a NaN position too
ApplyCommission(rows, commission) ==
    LET trades == {t \in 1..Len(rows) : ~IsZero(rows[t].position)}
        total_commission == FMul(Int2F(Cardinality(trades)), commission)
        final_capital == FMul(rows[Len(rows)].capital, FSub(One, total_commission))
    IN [rows EXCEPT ![Len(rows)].capital = final_capital]

\* lines 131-142: the columns position, returns, strategy_returns, capital
BacktestRows(signal, close, has_date_column, initial_capital) ==
    LET returns == ReturnsColumn(close, has_date_column)
        strategy_returns == StrategyReturnsColumn(signal, returns)
        capital == CapitalColumn(strategy_returns, initial_capital)
    IN Column([t \in 1..Len(signal) |->
          [position |-> Diff1(signal, t), returns |-> returns[t],
           strategy_returns |-> strategy_returns[t], capital |-> capital[t]]])

\* strategy_base.py:231-238: {} for a table without rows
CalculatePerformance(df) ==
    IF Len(df.rows) = 0 THEN <<>> ELSE <<evaluate_strategy(df)>>

\* the whole of StrategyBase.backtest: how it ends and the fields of the
\* object it has assigned by then
StrategyBase_backtest(s, old, close, has_date_column, initial_capital, commission) ==
    LET gs == GenerateSignalsCall(s, close, has_date_column)
        rows == BacktestRows(gs.value, close, has_date_column, initial_capital)
        frame(rs) == [rows |-> rs, datetime |-> TRUE,
                      days |-> IF Len(rs) = 0 THEN 0 ELSE Len(rs) - 1]
    IN IF gs.status # "ok"
       THEN [status |-> gs.status, signals |-> old.signals, table |-> old.table,
             performance |-> old.performance]
       ELSE IF FPos(commission) /\ Len(rows) = 0
       THEN [status |-> "IndexError", signals |-> gs.value, table |-> frame(rows),
             performance |-> old.performance]
       ELSE LET final == IF FPos(commission) THEN ApplyCommission(rows, commission)
                         ELSE rows
            IN [status |-> "ok", signals |-> gs.value, table |-> frame(final),
                performance |-> CalculatePerformance(frame(final))]

(***************************************************************************)
(* MACrossStrategy.backtest (ma_cross_strategy.py:298-329): the base       *)
(* backtest, then a TradingSimulator of its own run over the signals, then *)
(* the results written into the table as new columns.  The assignment of   *)
(* line 320 gives the column a list of one entry per trade: it raises      *)
(* ValueError unless the table has as many rows as there were trades.      *)
(* self.trade_simulator_result is assigned only after that line.           *)
(***************************************************************************)
\* lines 303-306: the table handed to simulate()
TradeSignalFrame(signal, close) ==
    [signal_col |-> TRUE, price_cols |-> {"close"}, index |-> "datetime",
     rows |-> Column([t \in 1..Len(signal) |->
                  [close |-> close[t], price |-> 0,
                   signal |-> IF signal[t] = 1 THEN "BUY"
                              ELSE IF signal[t] = -1 THEN "SELL" ELSE "HOLD"]])]

\* lines 308-329, after the base backtest has returned base
MACrossSimulation(base, close, initial_capital) ==
    LET L == OnFreshInstance(initial_capital, TradeSignalFrame(base.signals, close),
                             "HSI", 1, Len(close))
    IN IF Len(close) = 0 THEN [base EXCEPT !.status = "IndexError"]
       ELSE IF Len(L.trade_log) # Len(close) THEN [base EXCEPT !.status = "ValueError"]
       ELSE base

MACross_backtest(s, old, close, has_date_column, initial_capital, commission) ==
    CHOOSE r \in
        { IF base.status # "ok" THEN base
          ELSE MACrossSimulation(base, close, initial_capital) :
            base \in {StrategyBase_backtest(s, old, close, has_date_column,
                                            initial_capital, commission)} } : TRUE

\* backtest() as the class of the object dispatches it.  MovingAverageStrategy
\* and MACDStrategy inherit StrategyBase.backtest unchanged; the StrategyBase
\* they import is taken to be the class of strategy_base.py.
backtest(s, old, close, has_date_column, initial_capital, commission) ==
    IF s.cls = "MACross"
    THEN MACross_backtest(s, old, close, has_date_column, initial_capital, commission)
    ELSE StrategyBase_backtest(s, old, close, has_date_column, initial_capital, commission)

(***************************************************************************)
(* A caller that constructs strategy objects, assigning each to the same   *)
(* variable.  A constructor that raises assigns nothing.                   *)
(***************************************************************************)
ConstructInit ==
    /\ NoSimulator
    /\ StrategyAbsent

\* strategy = Cls(...): the fields StrategyBase.__init__ sets on the new object
Bind(r) ==
    IF r.status = "ok"
    THEN /\ strategy' = r.value
         /\ signals' = <<>>
         /\ table' = NoTable
         /\ performance' = <<>>
    ELSE UNCHANGED <<strategy, signals, table, performance>>

NewMACross(short_period, long_period, ma_type) ==
    /\ LET r == MACrossStrategy(short_period, long_period, ma_type) IN
          /\ Bind(r)
          /\ sret' = [op |-> "MACrossStrategy", status |-> r.status, value |-> r.value,
                      args |-> <<short_period, long_period, ma_type>>]
    /\ UNCHANGED <<data, gp>>
    /\ UNCHANGED simVars

NewMovingAverage(fast_window, slow_window, ma_type) ==
    /\ LET r == MovingAverageStrategy(fast_window, slow_window, ma_type) IN
          /\ Bind(r)
          /\ sret' = [op |-> "MovingAverageStrategy", status |-> r.status, value |-> r.value,
                      args |-> <<fast_window, slow_window, ma_type>>]
    /\ UNCHANGED <<data, gp>>
    /\ UNCHANGED simVars

NewMACD(fast_period, slow_period, signal_period) ==
    /\ LET r == MACDStrategy(fast_period, slow_period, signal_period) IN
          /\ Bind(r)
          /\ sret' = [op |-> "MACDStrategy", status |-> r.status, value |-> r.value,
                      args |-> <<fast_period, slow_period, signal_period>>]
    /\ UNCHANGED <<data, gp>>
    /\ UNCHANGED simVars

ConstructNext ==
    \/ \E sp \in Periods, lp \in Periods, mt \in MaTypes : NewMACross(sp, lp, mt)
    \/ \E fw \in Periods, sw \in Periods, mt \in MaTypes : NewMovingAverage(fw, sw, mt)
    \/ \E fp \in Periods, sp \in Periods, gp2 \in Periods : NewMACD(fp, sp, gp2)

ConstructSpec == ConstructInit /\ [][ConstructNext]_vars

(***************************************************************************)
(* A caller that holds a newly constructed strategy object and a price     *)
(* series and makes one call on it, generate_signals or backtest, as the   *)
(* routes of strategy_routes.py do for each request.                       *)
(***************************************************************************)
InitialCapitals == {1}
Commissions == {Zero, Num(1, 100)}

\* the objects the constructors return
ConstructedStrategies ==
    { r.value : r \in { x \in
        {MACrossStrategy(sp, lp, mt) : sp \in Periods, lp \in Periods, mt \in MaTypes}
        \cup {MovingAverageStrategy(fw, sw, mt) : fw \in Periods, sw \in Periods, mt \in MaTypes}
        \cup {MACDStrategy(fp, sp, gp2) : fp \in Periods, sp \in Periods, gp2 \in Periods}
        : x.status = "ok" } }

StrategyInit ==
    /\ NoSimulator
    /\ strategy \in ConstructedStrategies
    /\ data \in SeqsUpTo(Closes, MaxBars)
    /\ signals = <<>>
    /\ table = NoTable
    /\ performance = <<>>
    /\ sret = NoCall
    /\ gp = NoGP

\* strategy.generate_signals(data): returns the table, keeps nothing
GenerateSignals(has_date_column) ==
    /\ sret = NoCall
    /\ LET r == GenerateSignalsCall(strategy, data, has_date_column) IN
          sret' = [op |-> "generate_signals", status |-> r.status, value |-> r.value,
                   args |-> <<has_date_column>>]
    /\ UNCHANGED <<strategy, data, signals, table, performance, gp>>
    /\ UNCHANGED simVars

\* strategy.backtest(data, initial_capital, commission)
Backtest(has_date_column, initial_capital, commission) ==
    /\ sret = NoCall
    /\ \E r \in {backtest(strategy,
                          [signals |-> signals, table |-> table,
                           performance |-> performance],
                          data, has_date_column, initial_capital, commission)} :
          /\ signals' = r.signals
          /\ table' = r.table
          /\ performance' = r.performance
          /\ sret' = [op |-> "backtest", status |-> r.status, value |-> <<>>,
                      args |-> <<has_date_column, initial_capital, commission>>]
    /\ UNCHANGED <<strategy, data, gp>>
    /\ UNCHANGED simVars

StrategyNext ==
    \/ \E h \in BOOLEAN : GenerateSignals(h)
    \/ \E h \in BOOLEAN, ic \in InitialCapitals, cm \in Commissions : Backtest(h, ic, cm)

StrategySpec == StrategyInit /\ [][StrategyNext]_vars

(***************************************************************************)
(* C13.  The signal column against the crossover events of the series the  *)
(* strategy crosses.                                                       *)
(***************************************************************************)
\* the longer average of the strategy is defined on date t of the series
LongerDefined(s, t) ==
    IF s.cls = "MACross" /\ s.ma_type = "sma" THEN t >= s.long_period
    ELSE IF s.cls = "MovingAverage" /\ s.ma_type = "sma" THEN t >= s.slow_window
    ELSE TRUE

GoldenCrossOn(s, close, t) ==
    /\ t > 1
    /\ FLt(StrategyDiff(s, close)[t - 1], Zero)
    /\ FGt(StrategyDiff(s, close)[t], Zero)

DeathCrossOn(s, close, t) ==
    /\ t > 1
    /\ FGt(StrategyDiff(s, close)[t - 1], Zero)
    /\ FLt(StrategyDiff(s, close)[t], Zero)

SignalsAsClaimed(sig) ==
    /\ Len(sig) = Len(data)
    /\ \A t \in 1..Len(data) :
          /\ sig[t] \in {-1, 0, 1}
          /\ sig[t] = 1 <=> GoldenCrossOn(strategy, data, t)
          /\ sig[t] = -1 <=> DeathCrossOn(strategy, data, t)
          /\ (t = 1 \/ ~LongerDefined(strategy, t)) => sig[t] = 0

\* C13: the signal column generate_signals returns, and the one a backtest
\* keeps, holds Buy exactly on the golden-cross dates, Sell exactly on the
\* death-cross dates and Hold on every other date; the first date and every
\* date on which the longer average is undefined is Hold.
C13_SignalsFollowCrossovers ==
    /\ (sret.op = "generate_signals" /\ sret.status = "ok")
          => SignalsAsClaimed(sret.value)
    /\ (sret.op = "backtest" /\ sret.status \in {"ok", "ValueError"}
          /\ Len(signals) > 0)
          => SignalsAsClaimed(signals)

C13_Witness ==
    /\ strategy = [cls |-> "MACross", short_period |-> 1, long_period |-> 2,
                   ma_type |-> "sma"]
    /\ data = <<1, 2, 1, 2>>
    /\ sret.op = "generate_signals"
    /\ sret.status = "ok"
    /\ sret.value = <<0, 0, -1, 1>>

(***************************************************************************)
(* C14.  Two series that agree up to date t both extend the series of      *)
(* their first t dates, so it is enough to compare the result on a series  *)
(* with the result on each of its prefixes.                                *)
(***************************************************************************)
\* the position column a strategy derives from a signal column:
\* generate_position for MACrossStrategy, the forward fill for the others
PositionsOf(s, sig) ==
    IF s.cls = "MACross" THEN generate_position(sig) ELSE FfillColumn(sig)

Prefix(seq, n) == SubSeq(seq, 1, n)

\* C14: the signals and the positions on the first n dates of a series are
\* those of the series cut after its first n dates, whatever the later prices
C14_NoLookahead ==
    (sret.op = "generate_signals" /\ sret.status = "ok")
        => \A n \in 0..Len(data) :
              /\ generate_signals(strategy, Prefix(data, n)) = Prefix(sret.value, n)
              /\ PositionsOf(strategy, generate_signals(strategy, Prefix(data, n)))
                    = Prefix(PositionsOf(strategy, sret.value), n)

C14_Witness ==
    /\ strategy = [cls |-> "MACross", short_period |-> 1, long_period |-> 2,
                   ma_type |-> "ema"]
    /\ data = <<1, 2, 1, 2>>
    /\ sret.op = "generate_signals"
    /\ sret.status = "ok"
    /\ sret.value[3] = -1
    /\ generate_signals(strategy, <<1, 2, 1>>)[3] = -1
    /\ PositionsOf(strategy, sret.value) = <<0, 0, -1, 1>>

(***************************************************************************)
(* C15.  The report a backtest computes.                                   *)
(***************************************************************************)
BacktestReported ==
    /\ sret.op = "backtest"
    /\ Len(data) > 0
    /\ Len(performance) > 0

\* C15: every field of the report a backtest of a non-empty price series
\* produces is a defined number: no field is NaN or infinite, and the trade
\* count is a natural number.
C15_ReportFieldsDefined ==
    BacktestReported
        => /\ \A x \in FloatFields(performance[1]) : IsFinite(x)
           /\ performance[1].trade_count \in Nat

(***************************************************************************)
(* C16.  The table a backtest hands to evaluate_strategy.                  *)
(***************************************************************************)
BacktestTabled ==
    /\ sret.op = "backtest"
    /\ Len(table.rows) > 0
    /\ Len(signals) = Len(table.rows)

\* C16: in the table a backtest hands to evaluate_strategy the position
\* column is the position the tracker derives from the signals (1 long,
\* 0 flat, -1 short), and strategy_returns is position times returns on
\* every row.
C16_TableHoldsTrackedPosition ==
    BacktestTabled
        => \A t \in 1..Len(table.rows) :
              /\ table.rows[t].position = Int2F(PositionsOf(strategy, signals)[t])
              /\ table.rows[t].strategy_returns
                    = FMul(table.rows[t].position, table.rows[t].returns)

(***************************************************************************)
(* A caller of evaluate_strategy.  The table has the four required columns *)
(* and holds defined numbers: a position of -1, 0 or 1, a strategy return  *)
(* and a capital on each row; its index is either a DatetimeIndex of       *)
(* consecutive days or the default integer index.                          *)
(***************************************************************************)
MaxTableRows == 3
TablePositions == {-1, 0, 1}
TableReturns == {Zero, Num(1, 10)}
TableCapitals == {0, 1, 2}

TableRows ==
    [position : {Int2F(p) : p \in TablePositions},
     returns : {Zero},
     strategy_returns : TableReturns,
     capital : {Int2F(c) : c \in TableCapitals}]

StatsInit ==
    /\ NoSimulator
    /\ strategy = NoStrategy
    /\ data = <<>>
    /\ signals = <<>>
    /\ \E rows \in SeqsUpTo(TableRows, MaxTableRows), datetime \in BOOLEAN :
          table = [rows |-> rows, datetime |-> datetime,
                   days |-> IF datetime /\ Len(rows) > 0 THEN Len(rows) - 1 ELSE 0]
    /\ performance = <<>>
    /\ sret = NoCall
    /\ gp = NoGP

\* performance = evaluate_strategy(table), once for a table
Evaluate ==
    /\ sret = NoCall
    /\ performance' = <<evaluate_strategy(table)>>
    /\ sret' = [op |-> "evaluate_strategy", status |-> "ok"]
    /\ UNCHANGED <<strategy, data, signals, table, gp>>
    /\ UNCHANGED simVars

StatsNext == Evaluate

StatsSpec == StatsInit /\ [][StatsNext]_vars

(***************************************************************************)
(* C17.  The degenerate tables.                                            *)
(***************************************************************************)
Evaluated == sret.op = "evaluate_strategy" /\ Len(performance) = 1

ZeroTrades ==
    \A t \in 2..Len(table.rows) :
        table.rows[t].position = table.rows[t - 1].position

ZeroVariance ==
    /\ Len(table.rows) > 1
    /\ \A t \in 2..Len(table.rows) :
          table.rows[t].strategy_returns = table.rows[1].strategy_returns

\* a denominator of total_return or of max_drawdown is zero: capital is never
\* negative here, so the running maximum is zero exactly while capital is
ZeroCapital ==
    /\ Len(table.rows) > 0
    /\ IsZero(table.rows[1].capital)

\* C17: in each degenerate case evaluate_strategy returns defined numbers,
\* never NaN or an infinity: an empty table and a single row give no NaN,
\* zero trades give win_rate 0, zero variance of the strategy returns gives
\* sharpe_ratio 0, and a zero capital leaves total_return and max_drawdown
\* defined.
C17_DegenerateCasesDefined ==
    Evaluated
        => LET r == performance[1] IN
           /\ Len(table.rows) <= 1 => \A x \in FloatFields(r) : IsFinite(x)
           /\ ZeroTrades => r.win_rate = Zero
           /\ ZeroVariance => r.sharpe_ratio = Zero
           /\ ZeroCapital => IsFinite(r.total_return) /\ IsFinite(r.max_drawdown)

\* C18: on a table with the required columns and no rows every one of the
\* seven fields of the report is zero
C18_EmptyTableAllZero ==
    (Evaluated /\ Len(table.rows) = 0)
        => /\ \A x \in FloatFields(performance[1]) : x = Zero
           /\ performance[1].trade_count = 0

C18_Witness ==
    /\ Evaluated
    /\ table.rows = <<>>
    /\ performance[1].volatility = Zero
    /\ performance[1].total_return = Zero

\* the rows after the first whose position differs from the row before
ChangedRows ==
    {t \in 2..Len(table.rows) : table.rows[t].position # table.rows[t - 1].position}

\* C19: trade_count is the number of rows, the first excluded, whose position
\* differs from the previous row's; it is 0 for a table of fewer than two rows
C19_TradeCountCountsChanges ==
    Evaluated
        => /\ performance[1].trade_count = Cardinality(ChangedRows)
           /\ Len(table.rows) < 2 => performance[1].trade_count = 0

C19_Witness ==
    /\ Evaluated
    /\ Len(table.rows) = 3
    /\ table.rows[1].position = Int2F(-1)
    /\ table.rows[2].position = Int2F(1)
    /\ table.rows[3].position = Int2F(1)
    /\ performance[1].trade_count = 1

(***************************************************************************)
(* C20.  The constructors' parameter checks.                               *)
(***************************************************************************)
KindRecognised(ma_type) == ma_type \in {"sma", "ema", "SMA"}

ConstructionFailed ==
    /\ sret.status = "ValueError"
    /\ sret.value = NoStrategy

\* C20: constructing a moving-average cross strategy with a short period not
\* below the long period, or with a kind that is neither SMA nor EMA, fails
\* with a parameter error; constructing a MACD strategy with a fast period
\* not below the slow period fails likewise; a failed construction yields no
\* object.
C20_ConstructorsRejectBadParameters ==
    /\ sret.op \in {"MACrossStrategy", "MovingAverageStrategy"}
          => ((sret.args[1] >= sret.args[2] \/ ~KindRecognised(sret.args[3]))
                 => ConstructionFailed)
    /\ sret.op = "MACDStrategy"
          => (sret.args[1] >= sret.args[2] => ConstructionFailed)
    /\ sret.op \in {"MACrossStrategy", "MovingAverageStrategy", "MACDStrategy"}
          => (sret.status # "ok" => sret.value = NoStrategy)

C20_Witness ==
    /\ sret.op = "MACDStrategy"
    /\ sret.args = <<2, 1, 1>>
    /\ sret.status = "ValueError"
    /\ sret.value = NoStrategy
    /\ strategy.cls = "MACross"

(***************************************************************************)
(* The indicator functions: calculate_sma, calculate_ema                   *)
(* (moving_average.py), bollinger_bands, macd (services/indicators.py) and *)
(* calculate_macd (strategies/macd.py).  Each is called with a table and   *)
(* the name of a price column; `frame` says what the caller passed and     *)
(* `close` is the content of the price column.  An indicator takes any     *)
(* numeric column, a zero entry included.                                  *)
(***************************************************************************)
MaxIndicatorBars == 3
IndicatorCloses == 0..MaxClose
StdDevs == {2}

\* what a caller passes as df: something that is not a DataFrame, a
\* DataFrame without the price column, or one with it
FrameKinds == {"not_a_frame", "no_column", "with_column"}

Failed(exc) == [status |-> exc, value |-> <<>>]
Returned(v) == [status |-> "ok", value |-> v]

\* the two checks every indicator function opens with
\* (isinstance(df, pd.DataFrame), column in df.columns)
CheckInput(frame, v) ==
    IF frame = "not_a_frame" THEN Failed("TypeError")
    ELSE IF frame = "no_column" THEN Failed("ValueError")
    ELSE Returned(v)

\* moving_average.py:41-55
calculate_sma(frame, close, period) ==
    CheckInput(frame, Column([t \in 1..Len(close) |-> RollingMean(close, period, t)]))

\* moving_average.py:84-98
calculate_ema(frame, close, period) ==
    CheckInput(frame, EwmColumn(IntColumn(close), period))

\* Series.rolling(window=period).std() at row t: the sample standard
\* deviation (ddof = 1) of the last `period` entries: NaN until `period`
\* rows exist and for a window of one entry, 0 for a window of equal
\* entries, otherwise a positive real
RollingStd(close, period, t) ==
    IF t < period \/ period < 2 THEN NaN
    ELSE IF \A u \in (t - period + 1)..t : close[u] = close[t] THEN Zero
    ELSE Real(1)

\* indicators.py:64-75: one row of the four band columns
BollingerRow(close, period, std_dev, t) ==
    LET bb_middle == RollingMean(close, period, t)
        bb_std == RollingStd(close, period, t)
        bb_upper == FAdd(bb_middle, FMul(bb_std, Int2F(std_dev)))
        bb_lower == FSub(bb_middle, FMul(bb_std, Int2F(std_dev)))
    IN [bb_middle |-> bb_middle, bb_upper |-> bb_upper, bb_lower |-> bb_lower,
        bb_width |-> FDiv(FSub(bb_upper, bb_lower), bb_middle)]

\* indicators.py:54-80
bollinger_bands(frame, close, period, std_dev) ==
    CheckInput(frame, Column([t \in 1..Len(close) |->
                                 BollingerRow(close, period, std_dev, t)]))

\* the three columns both MACD functions compute
MacdRows(close, fast_period, slow_period, signal_period) ==
    LET line == FSubColumn(EwmColumn(IntColumn(close), fast_period),
                           EwmColumn(IntColumn(close), slow_period))
        signal == EwmColumn(line, signal_period)
    IN Column([t \in 1..Len(close) |->
          [macd |-> line[t], macd_signal |-> signal[t],
           macd_histogram |-> FSub(line[t], signal[t])]])

\* indicators.py:122-143
macd(frame, close, fast_period, slow_period, signal_period) ==
    CheckInput(frame, MacdRows(close, fast_period, slow_period, signal_period))

\* strategies/macd.py:51-74: the same columns under the names macd_line,
\* signal_line, hist
calculate_macd(frame, close, fast_period, slow_period, signal_period) ==
    CheckInput(frame, MacdRows(close, fast_period, slow_period, signal_period))

IndicatorInit ==
    /\ NoSimulator
    /\ strategy = NoStrategy
    /\ data \in SeqsUpTo(IndicatorCloses, MaxIndicatorBars)
    /\ signals = <<>>
    /\ table = NoTable
    /\ performance = <<>>
    /\ sret = NoCall
    /\ gp = NoGP

\* the caller keeps what the function returned or how it failed
IndicatorCalled(op, frame, r, args) ==
    /\ sret = NoCall
    /\ sret' = [op |-> op, frame |-> frame, status |-> r.status,
                value |-> r.value, args |-> args]
    /\ UNCHANGED <<strategy, data, signals, table, performance, gp>>
    /\ UNCHANGED simVars

CallSma(frame, period) ==
    IndicatorCalled("calculate_sma", frame, calculate_sma(frame, data, period),
                    <<period>>)

CallEma(frame, period) ==
    IndicatorCalled("calculate_ema", frame, calculate_ema(frame, data, period),
                    <<period>>)

CallBollinger(frame, period, std_dev) ==
    IndicatorCalled("bollinger_bands", frame,
                    bollinger_bands(frame, data, period, std_dev),
                    <<period, std_dev>>)

CallMacd(frame, fast_period, slow_period, signal_period) ==
    IndicatorCalled("macd", frame,
                    macd(frame, data, fast_period, slow_period, signal_period),
                    <<fast_period, slow_period, signal_period>>)

CallCalculateMacd(frame, fast_period, slow_period, signal_period) ==
    IndicatorCalled("calculate_macd", frame,
                    calculate_macd(frame, data, fast_period, slow_period,
                                   signal_period),
                    <<fast_period, slow_period, signal_period>>)

IndicatorNext ==
    \/ \E c \in FrameKinds, n \in Periods : CallSma(c, n)
    \/ \E c \in FrameKinds, n \in Periods : CallEma(c, n)
    \/ \E c \in FrameKinds, n \in Periods, k \in StdDevs : CallBollinger(c, n, k)
    \/ \E c \in FrameKinds, f \in Periods, sl \in Periods, g \in Periods :
          CallMacd(c, f, sl, g)
    \/ \E c \in FrameKinds, f \in Periods, sl \in Periods, g \in Periods :
          CallCalculateMacd(c, f, sl, g)

IndicatorSpec == IndicatorInit /\ [][IndicatorNext]_vars

(***************************************************************************)
(* C21.  The MACD computation and its periods.                             *)
(***************************************************************************)
\* C21: the macd computation called with a fast period not below the slow
\* period fails with a parameter error and returns no MACD values
C21_MacdRequiresFastBelowSlow ==
    (/\ sret.op \in {"macd", "calculate_macd"}
     /\ sret.frame = "with_column"
     /\ sret.args[1] >= sret.args[2])
        => (sret.status = "ValueError" /\ sret.value = <<>>)

(***************************************************************************)
(* C24.  The Bollinger width on rows whose middle band is zero.            *)
(***************************************************************************)
BollingerReturned == sret.op = "bollinger_bands" /\ sret.status = "ok"

\* C24: in the table bollinger_bands returns, every row whose middle band
\* equals 0 has width 0 (neither NaN nor infinite)
C24_WidthZeroWhereMiddleZero ==
    BollingerReturned =>
        \A t \in 1..Len(sret.value) :
            IsZero(sret.value[t].bb_middle) => IsZero(sret.value[t].bb_width)

(***************************************************************************)
(* The computations as seen by a caller who may pass a bad table: an       *)
(* indicator function, a strategy's generate_signals, or simulate().  A    *)
(* run makes one of these calls on a fresh object.                         *)
(***************************************************************************)
OhlcColumns == {"open", "high", "low", "close"}
BarColumns == {"date"} \cup OhlcColumns

\* the column sets a caller passes: a full bar table, or one column short
ColumnSets == {BarColumns} \cup {BarColumns \ {c} : c \in BarColumns}

\* the order of the dates of the caller's table: strictly increasing, or
\* the same distinct dates in another order
DateOrders == {"increasing", "out_of_order"}

\* a generate_signals without the column loop
GenerateSignalsOn_unchecked(s, columns, dates, close) ==
    GenerateSignalsCall(s, close, "date" \in columns)

\* generate_signals(data) on a table with the given columns: the loop over
\* required_cols (ma_cross_strategy.py:129-133, moving_average.py:407-411,
\* macd.py:319-323), then the computation.  Nothing reads the order of the
\* dates: the rolling means, the crossover tests and the assignment of the
\* signal go by row position and by exact label.
GenerateSignalsOn(s, columns, dates, close) ==
    IF ~(OhlcColumns \subseteq columns) THEN Failed("ValueError")
    ELSE GenerateSignalsCall(s, close, "date" \in columns)

StrategyInputInit ==
    /\ NoSimulator
    /\ strategy \in ConstructedStrategies
    /\ data \in SeqsUpTo(Closes, MaxIndicatorBars)
    /\ signals = <<>>
    /\ table = NoTable
    /\ performance = <<>>
    /\ sret = NoCall
    /\ gp = NoGP

InputInit == Init \/ IndicatorInit \/ StrategyInputInit

\* strategy.generate_signals(data) on a table that may lack a column; only
\* a table of two rows or more has dates out of order
GenerateSignalsWith(columns, dates) ==
    /\ strategy # NoStrategy
    /\ sret = NoCall
    /\ dates = "out_of_order" => Len(data) >= 2
    /\ LET r == GenerateSignalsOn(strategy, columns, dates, data) IN
          sret' = [op |-> "generate_signals", status |-> r.status,
                   value |-> r.value, args |-> <<columns, dates>>]
    /\ UNCHANGED <<strategy, data, signals, table, performance, gp>>
    /\ UNCHANGED simVars

\* no simulator call was made in this run
SimulatorUntouched == ret.op = "init"

InputNext ==
    \/ StrategyAbsent /\ SimulateStart
    \/ SimulateCheck
    \/ SimulateRow
    \/ SimulateReturn
    \/ SimulatorUntouched /\ strategy = NoStrategy
          /\ \E c \in FrameKinds, n \in Periods : CallSma(c, n)
    \/ SimulatorUntouched /\ strategy = NoStrategy
          /\ \E c \in FrameKinds, n \in Periods : CallEma(c, n)
    \/ SimulatorUntouched /\ strategy = NoStrategy
          /\ \E c \in FrameKinds, n \in Periods, k \in StdDevs : CallBollinger(c, n, k)
    \/ SimulatorUntouched /\ strategy = NoStrategy
          /\ \E c \in FrameKinds, f \in Periods, sl \in Periods, g \in Periods :
                CallMacd(c, f, sl, g)
    \/ SimulatorUntouched /\ strategy = NoStrategy
          /\ \E c \in FrameKinds, f \in Periods, sl \in Periods, g \in Periods :
                CallCalculateMacd(c, f, sl, g)
    \/ SimulatorUntouched
          /\ \E cs \in ColumnSets, d \in DateOrders : GenerateSignalsWith(cs, d)

InputSpec == InputInit /\ [][InputNext]_vars

(***************************************************************************)
(* C23.  Missing columns.                                                  *)
(***************************************************************************)
IndicatorOps ==
    {"calculate_sma", "calculate_ema", "bollinger_bands", "macd", "calculate_macd"}

FailedWithoutResult == sret.status = "ValueError" /\ sret.value = <<>>

IndicatorWithoutColumn == sret.op \in IndicatorOps /\ sret.frame = "no_column"

SignalsWithoutColumn ==
    sret.op = "generate_signals" /\ ~(OhlcColumns \subseteq sret.args[1])

SimulateWithoutColumn ==
    /\ ret.op = "simulate"
    /\ pc # "check"
    /\ (~sim.df.signal_col \/ sim.df.price_cols = {})

\* C23: an indicator function called on a table without the price column,
\* generate_signals called on a table lacking one of open/high/low/close,
\* and simulate called on a table without the signal column or without
\* both 'close' and 'price', each fail with ValueError and produce nothing
C23_MissingColumnFails ==
    /\ IndicatorWithoutColumn => FailedWithoutResult
    /\ SignalsWithoutColumn => FailedWithoutResult
    /\ SimulateWithoutColumn =>
          (/\ ret.status = "ValueError"
           /\ pc = "idle"
           /\ result = <<>>
           /\ trade_log = <<>>)

C23_SignalsCase == SignalsWithoutColumn /\ Len(data) > 0
C23_SimulateCase == SimulateWithoutColumn /\ Len(sim.df.rows) > 0

C23_Witness == IndicatorWithoutColumn /\ sret.op = "bollinger_bands" /\ Len(data) > 0

(***************************************************************************)
(* C22.  Tables whose dates are not strictly increasing.                   *)
(***************************************************************************)
\* C22: generate_signals called on a table whose dates are not strictly
\* increasing fails with ValueError and produces no signal table
C22_UnorderedDatesFail ==
    (sret.op = "generate_signals" /\ sret.args[2] # "increasing")
        => FailedWithoutResult

(***************************************************************************)
(* The ledger with its two reports: direct calls of buy, sell, reset,      *)
(* get_portfolio_value and get_performance_summary on one simulator.  A    *)
(* report changes nothing; the caller keeps what it returned.              *)
(***************************************************************************)
\* the current_prices a caller passes: prices for some of the symbols
PriceMaps == UNION { [S -> Prices] : S \in SUBSET Symbols }

GetPortfolioValue(current_prices) ==
    /\ pc = "idle"
    /\ ret' = [op |-> "get_portfolio_value", status |-> "ok"]
    /\ result' = <<[args |-> current_prices,
                    value |-> get_portfolio_value(Ledger, current_prices)]>>
    /\ sim' = NoFrame
    /\ UNCHANGED <<initial_cash, cash, positions, trade_log, pc>>
    /\ UNCHANGED strategyVars

GetPerformanceSummary ==
    /\ pc = "idle"
    /\ ret' = [op |-> "get_performance_summary", status |-> "ok"]
    /\ result' = <<[args |-> <<>>,
                    value |-> get_performance_summary(Ledger, initial_cash)]>>
    /\ sim' = NoFrame
    /\ UNCHANGED <<initial_cash, cash, positions, trade_log, pc>>
    /\ UNCHANGED strategyVars

LedgerNext ==
    \/ \E s \in Symbols, p \in Prices, q \in Quantities : Buy(s, p, q)
    \/ \E s \in Symbols, p \in Prices, q \in Quantities : Sell(s, p, q)
    \/ Reset
    \/ \E cp \in PriceMaps : GetPortfolioValue(cp)
    \/ GetPerformanceSummary

LedgerSpec == Init /\ [][LedgerNext]_vars

(***************************************************************************)
(* C25.  The portfolio report.                                             *)
(***************************************************************************)
PortfolioReported == ret.op = "get_portfolio_value"

HeldSymbols == DOMAIN positions

\* the worth of one symbol: its holding at the passed price, nothing when it
\* is not held or has no price
WorthOf(s, current_prices) ==
    IF s \in HeldSymbols /\ s \in DOMAIN current_prices
    THEN positions[s] * current_prices[s] ELSE 0

\* C25: the report of get_portfolio_value carries the cash, positions_value
\* as the sum of quantity x price over the held symbols that have a price,
\* total_value = cash + positions_value, and one breakdown entry per held
\* symbol: quantity, price and value when the symbol has a price, and the
\* marker "unknown" for price and value (not 0) when it has none
C25_PortfolioReport ==
    PortfolioReported =>
        LET cp == result[1].args
            v == result[1].value
        IN /\ v.cash = cash
           /\ v.positions_value = WorthOf("HSI", cp) + WorthOf("TCH", cp)
           /\ v.total_value = v.cash + v.positions_value
           /\ DOMAIN v.positions_detail = HeldSymbols
           /\ \A s \in HeldSymbols :
                 /\ v.positions_detail[s].quantity = positions[s]
                 /\ IF s \in DOMAIN cp
                    THEN /\ v.positions_detail[s].current_price = cp[s]
                         /\ v.positions_detail[s].value = positions[s] * cp[s]
                    ELSE /\ v.positions_detail[s].current_price = "unknown"
                         /\ v.positions_detail[s].value = "unknown"

\* a report on two holdings, one with a price and one without
C25_Witness ==
    /\ PortfolioReported
    /\ HeldSymbols = Symbols
    /\ DOMAIN result[1].args = {"HSI"}
    /\ result[1].value.positions_value > 0

(***************************************************************************)
(* C28.  The ledger as the replay of its log.                              *)
(***************************************************************************)
\* what one record adds to the cash
CashEffect(trade) == IF trade.type = "buy" THEN 0 - trade.cost ELSE trade.proceeds

\* what one record adds to the holding of symbol s
HoldingEffect(trade, s) ==
    IF trade.symbol # s THEN 0
    ELSE IF trade.type = "buy" THEN trade.quantity ELSE 0 - trade.quantity

RECURSIVE ReplayCash(_, _)
ReplayCash(log, n) ==
    IF n = 0 THEN initial_cash ELSE ReplayCash(log, n - 1) + CashEffect(log[n])

RECURSIVE ReplayHolding(_, _, _)
ReplayHolding(log, s, n) ==
    IF n = 0 THEN 0 ELSE ReplayHolding(log, s, n - 1) + HoldingEffect(log[n], s)

HoldingOf(s) == IF s \in DOMAIN positions THEN positions[s] ELSE 0

SummaryReported == ret.op = "get_performance_summary"

\* C28: in every state reached by buy, sell and reset calls the cash is the
\* initial cash minus the costs of the buy records plus the proceeds of the
\* sell records, each holding is the quantity bought minus the quantity
\* sold, the last record's remaining_cash is the cash, and the summary
\* reports total_trades = buy_trades + sell_trades = length of the log and
\* cash_change = cash - initial_cash
C28_LedgerReplaysLog ==
    /\ cash = ReplayCash(trade_log, Len(trade_log))
    /\ \A s \in Symbols : HoldingOf(s) = ReplayHolding(trade_log, s, Len(trade_log))
    /\ trade_log # <<>> => trade_log[Len(trade_log)].remaining_cash = cash
    /\ SummaryReported =>
          LET v == result[1].value
          IN /\ v.total_trades = Len(trade_log)
             /\ v.total_trades = v.buy_trades + v.sell_trades
             /\ v.cash_change = cash - initial_cash

\* a summary of a log holding a paid buy and a sell
C28_Witness ==
    /\ SummaryReported
    /\ result[1].value.buy_trades > 0
    /\ result[1].value.sell_trades > 0
    /\ \E k \in 1..Len(trade_log) : trade_log[k].type = "buy" /\ trade_log[k].cost > 0

(***************************************************************************)
(* C27.  The timestamp of a trade made by simulate().                      *)
(***************************************************************************)
\* the date the claim assigns to row k: the index when it holds dates, else
\* the 'date' column, else the index value
DateOfRow(df, k) ==
    IF df.index \in {"datetime", "datecol"} THEN k ELSE k - 1

\* C27: every trade record simulate() appends while handling a row carries
\* that row's date as its timestamp
C27_TradeCarriesRowDate ==
    [][(pc = "loop" /\ Len(trade_log') = Len(trade_log) + 1)
          => trade_log'[Len(trade_log')].timestamp = DateOfRow(sim.df, sim.i)]_vars

(***************************************************************************)
(* The two position trackers on one signal column: the scan of             *)
(* MACrossStrategy.generate_position and the forward fill with which       *)
(* MovingAverageStrategy and MACDStrategy build their 'position' column.   *)
(***************************************************************************)
\* df['position'] = df['signal'].replace(to_replace=0, method='ffill'),
\* then fillna(0), on the signal column the scan was given
ForwardFillPosition ==
    /\ sret = NoCall
    /\ sret' = [op |-> "position", status |-> "ok",
                value |-> FfillColumn(gp.signal), args |-> <<gp.signal>>]
    /\ UNCHANGED <<strategy, data, signals, table, performance, gp>>
    /\ UNCHANGED simVars

TrackerNext ==
    \/ gp = NoGP /\ GeneratePositionCall
    \/ GeneratePositionRow
    \/ ForwardFillPosition

TrackerSpec == PositionInit /\ [][TrackerNext]_vars

(***************************************************************************)
(* C29.  The two trackers agree.                                           *)
(***************************************************************************)
BothTracked == sret.op = "position" /\ gp.i > Len(gp.signal) /\ sret.args[1] = gp.signal

\* the rows up to t that carry a Buy or a Sell
NonHoldUpTo(signal, t) == {u \in 1..t : signal[u] # 0}

\* Flat before the first Buy or Sell, afterwards Long or Short as the most
\* recent Buy or Sell says
AsClaimed(signal, column) ==
    /\ Len(column) = Len(signal)
    /\ \A t \in 1..Len(signal) :
          LET seen == NonHoldUpTo(signal, t) IN
          IF seen = {} THEN column[t] = 0
          ELSE LET last == CHOOSE u \in seen : \A w \in seen : w <= u
               IN column[t] = signal[last] /\ column[t] \in {1, -1}

SignedPrices == (0 - 1)..MaxPrice
SignedQuantities == (0 - 1)..MaxQty

SignedNext ==
    \/ \E s \in SimSymbols, p \in SignedPrices, q \in SignedQuantities : Buy(s, p, q)
    \/ \E s \in SimSymbols, p \in SignedPrices, q \in SignedQuantities : Sell(s, p, q)
    \/ Reset

SignedSpec == Init /\ [][SignedNext]_vars

(***************************************************************************)
(* C30.  No validation of the sign of price and quantity.                  *)
(***************************************************************************)
BuyAccepted(L2, s, p, q) ==
    /\ L2.cash = cash - p * q
    /\ s \in DOMAIN L2.positions
    /\ L2.positions[s] = Held(positions, s) + q
    /\ AppendsOne(trade_log, L2.trade_log)
    /\ Last(L2.trade_log).type = "buy"
    /\ Last(L2.trade_log).quantity = q
    /\ Last(L2.trade_log).price = p

C30_ZeroEntry ==
    /\ ret = [op |-> "buy", status |-> "ok"]
    /\ "HSI" \in DOMAIN positions
    /\ positions["HSI"] = 0

Callers == {"c1", "c2"}

NoRequest == [symbol |-> "HSI", price |-> 0, quantity |-> 0, amount |-> 0]

InFlight == {c \in Callers : pc[c] # "idle"}

\* a funds check that lets every cost through
FundsCheckFails_never(cost, available) == FALSE

\* simulator.py:73: if cost > self.cash
FundsCheckFails(cost, available) == cost > available

SharedInit ==
    /\ initial_cash \in 0..MaxInitialCash
    /\ cash = initial_cash
    /\ positions = EmptyPositions
    /\ trade_log = <<>>
    /\ pc = [c \in Callers |-> "idle"]
    /\ sim = [c \in Callers |-> NoRequest]
    /\ ret = [op |-> "shared", status |-> "serial"]
    /\ result = <<>>
    /\ StrategyAbsent

\* a call begins: the history flag, and room in the log for the calls in flight
Begins(c) ==
    /\ pc[c] = "idle"
    /\ Len(trade_log) + Cardinality(InFlight) < MaxLog
    /\ ret' = [ret EXCEPT !.status = IF InFlight # {} THEN "overlapped" ELSE @]

Goes(c, label) == pc' = [pc EXCEPT ![c] = label]

Returns(c) ==
    /\ pc' = [pc EXCEPT ![c] = "idle"]
    /\ sim' = [sim EXCEPT ![c] = NoRequest]

\* buy, lines 70-74: the cost and the funds check
BuyCheck(c, symbol, price, quantity) ==
    /\ Begins(c)
    /\ LET cost == price * quantity IN
          IF FundsCheckFails(cost, cash)
          THEN UNCHANGED <<pc, sim>>
          ELSE /\ Goes(c, "buy_debit")
               /\ sim' = [sim EXCEPT ![c] = [symbol |-> symbol, price |-> price,
                                             quantity |-> quantity, amount |-> cost]]
    /\ UNCHANGED <<initial_cash, cash, positions, trade_log, result>>
    /\ UNCHANGED strategyVars

\* buy, line 77: self.cash -= cost
BuyDebit(c) ==
    /\ pc[c] = "buy_debit"
    /\ cash' = cash - sim[c].amount
    /\ Goes(c, "buy_position")
    /\ UNCHANGED <<initial_cash, positions, trade_log, sim, ret, result>>
    /\ UNCHANGED strategyVars

\* buy, lines 80-83: the holding
BuyPosition(c) ==
    /\ pc[c] = "buy_position"
    /\ positions' = SetItem(positions, sim[c].symbol,
                            Held(positions, sim[c].symbol) + sim[c].quantity)
    /\ Goes(c, "buy_log")
    /\ UNCHANGED <<initial_cash, cash, trade_log, sim, ret, result>>
    /\ UNCHANGED strategyVars

\* buy, lines 86-98: the trade record, with the cash as it is now
BuyLog(c) ==
    /\ pc[c] = "buy_log"
    /\ trade_log' = Append(trade_log,
                           BuyTrade(sim[c].symbol, sim[c].price, sim[c].quantity,
                                    None, sim[c].amount, cash))
    /\ Returns(c)
    /\ UNCHANGED <<initial_cash, cash, positions, ret, result>>
    /\ UNCHANGED strategyVars

\* sell, lines 128-136: the two checks and the proceeds
SellCheck(c, symbol, price, quantity) ==
    /\ Begins(c)
    /\ IF symbol \notin DOMAIN positions \/ positions[symbol] < quantity
       THEN UNCHANGED <<pc, sim>>
       ELSE /\ Goes(c, "sell_credit")
            /\ sim' = [sim EXCEPT ![c] = [symbol |-> symbol, price |-> price,
                                          quantity |-> quantity,
                                          amount |-> price * quantity]]
    /\ UNCHANGED <<initial_cash, cash, positions, trade_log, result>>
    /\ UNCHANGED strategyVars

\* sell, line 139: self.cash += proceeds
SellCredit(c) ==
    /\ pc[c] = "sell_credit"
    /\ cash' = cash + sim[c].amount
    /\ Goes(c, "sell_position")
    /\ UNCHANGED <<initial_cash, positions, trade_log, sim, ret, result>>
    /\ UNCHANGED strategyVars

\* sell, line 140: self.positions[symbol] -= quantity; KeyError when another
\* call has removed the entry meanwhile
SellPosition(c) ==
    /\ pc[c] = "sell_position"
    /\ IF sim[c].symbol \in DOMAIN positions
       THEN /\ positions' = SetItem(positions, sim[c].symbol,
                                    positions[sim[c].symbol] - sim[c].quantity)
            /\ Goes(c, "sell_zero")
            /\ sim' = sim
       ELSE /\ positions' = positions
            /\ Returns(c)
    /\ UNCHANGED <<initial_cash, cash, trade_log, ret, result>>
    /\ UNCHANGED strategyVars

\* sell, lines 143-144: the emptied entry is removed; KeyError when another
\* call has removed it meanwhile
SellZero(c) ==
    /\ pc[c] = "sell_zero"
    /\ IF sim[c].symbol \notin DOMAIN positions
       THEN /\ positions' = positions
            /\ Returns(c)
       ELSE /\ positions' = IF positions[sim[c].symbol] = 0
                            THEN DelItem(positions, sim[c].symbol)
                            ELSE positions
            /\ Goes(c, "sell_log")
            /\ sim' = sim
    /\ UNCHANGED <<initial_cash, cash, trade_log, ret, result>>
    /\ UNCHANGED strategyVars

\* sell, lines 147-159: the trade record, with the cash as it is now
SellLog(c) ==
    /\ pc[c] = "sell_log"
    /\ trade_log' = Append(trade_log,
                           SellTrade(sim[c].symbol, sim[c].price, sim[c].quantity,
                                     None, sim[c].amount, cash))
    /\ Returns(c)
    /\ UNCHANGED <<initial_cash, cash, positions, ret, result>>
    /\ UNCHANGED strategyVars

SharedNext ==
    \/ \E c \in Callers, s \in SimSymbols, p \in Prices, q \in Quantities :
          BuyCheck(c, s, p, q)
    \/ \E c \in Callers : BuyDebit(c)
    \/ \E c \in Callers : BuyPosition(c)
    \/ \E c \in Callers : BuyLog(c)
    \/ \E c \in Callers, s \in SimSymbols, p \in Prices, q \in Quantities :
          SellCheck(c, s, p, q)
    \/ \E c \in Callers : SellCredit(c)
    \/ \E c \in Callers : SellPosition(c)
    \/ \E c \in Callers : SellZero(c)
    \/ \E c \in Callers : SellLog(c)

SharedSpec == SharedInit /\ [][SharedNext]_vars

(***************************************************************************)
(* C26.  Cash under serialized and under overlapping calls.                *)
(***************************************************************************)
\* C26: as long as no call has started while another was in flight, the
\* cash of the shared simulator is never negative
C26_SerializedKeepsCash ==
    ret.status = "serial" => cash >= 0

\* two buy calls overlapped, both passed the funds check, and after both
\* completed the cash is below zero
C26_Witness ==
    /\ ret.status = "overlapped"
    /\ InFlight = {}
    /\ Len(trade_log) = 2
    /\ \A k \in 1..2 : trade_log[k].type = "buy"
    /\ cash < 0

====
